---- MODULE Spec2Model ----
(***************************************************************************)
(* Model of the BQ30Z555 gas-gauge register decoder of esp32_battgauge_tool *)
(* (src/main/bq.c): the bit extractor, the two-phase SMBus block read, the  *)
(* word read, the value renderers and the bq_show / bq_lifetime commands,   *)
(* on top of the i2c_write_read transport of src/main/i2c.c.                *)
(*                                                                          *)
(* Bytes are integers 0..255.  TLC integers are 32-bit signed, so a C       *)
(* uint32_t is kept as two 16-bit limbs [hi, lo] (value = hi*65536 + lo),   *)
(* and a C float is kept as sign/mantissa/exponent with the IEEE-754        *)
(* binary32 rounding done on integers.                                      *)
(***************************************************************************)
EXTENDS Integers, Sequences, FiniteSets, TLC

VARIABLES
    pc,        \* position of the console command being executed
    op,        \* the command: "none", "bq_show", "bq_lifetime", "decode_one"
    first,     \* index in bq_commands at which the modelled bq_show pass starts
    pos,       \* loop index of cmd_bq_dump (0-based, as in the code)
    entry,     \* descriptor handed to bq_generic_dump
    n,         \* block index handed to bq_print_lifetime_block_decoded
    len,       \* length byte obtained by phase 1 of a block read
    bus,       \* i2c_write_read transactions issued by the running command
    results,   \* per decoded entry: return code, stdout rendering, error log
    ret,       \* return code of the finished command
    xdata,     \* bit extractor harness: buffer
    xlsb,      \*   lsb_index argument
    xwidth,    \*   width argument
    xvalue,    \*   returned value, or NoValue before the call
    xbuild,    \* totality harness: what the build makes of 1u << i for i >= 32
    xsteps,    \*   first call: value, loop iterations, byte indices read
    xagain,    \*   value returned by a second call with the same arguments
    run,       \* two console tasks: per task, the position in its command
    wire,      \*   transactions on the shared bus, in the order they happen
    decodes,   \*   number of commands dispatched so far
    rw,        \* i2c_rw: arguments, loop counter, return code
    rwlog,     \*   transactions and delays of the running i2c_rw command
    memo,      \* an earlier decode, remembered: descriptor, responses, result
    tn,        \* telnet server task: connection, line buffer, socket table
    lg,        \* a task inside the log redirector
    wf         \* Wi-Fi station: link state and the handlers' static variables

vars == << pc, op, first, pos, entry, n, len, bus, results, ret,
           xdata, xlsb, xwidth, xvalue, xbuild, xsteps, xagain,
           run, wire, decodes, rw, rwlog, memo, tn, lg, wf >>

decodeVars == << pc, op, first, pos, entry, n, len, bus, results, ret >>
extractVars == << xdata, xlsb, xwidth, xvalue >>
totalVars == << xbuild, xsteps, xagain >>
concVars == << run, wire, decodes >>
rwVars == << rw, rwlog >>
consoleVars == << concVars, rwVars >>
otherVars == << memo, tn, lg, wf >>
harnessVars == << extractVars, totalVars, consoleVars, otherVars >>

(***************************************************************************)
(* Bounds of the model                                                      *)
(***************************************************************************)
MaxBufLen == 4     \* longest buffer handed to the bit extractor harness
MaxLen == 2        \* largest length byte the device answers with
MaxEntries == 3    \* number of table entries one bq_show pass iterates over
MaxTotalLen == 2   \* longest buffer of the totality harness
MaxDecodes == 2    \* commands dispatched by the two console tasks together
MaxCycles == 3     \* largest <count> given to i2c_rw --cyclic
MaxLogLines == 2   \* log lines emitted by the other task
MaxSubneg == 1     \* subnegotiations a telnet client sends per connection
MaxCreds == 2      \* credentials one WPS success event carries
MaxConnects == 3   \* successful Wi-Fi connections

(***************************************************************************)
(* Error codes and the device address                                       *)
(***************************************************************************)
ESP_OK == 0
ESP_ERR_INVALID_ARG == 258
I2C_FAIL == -1
BQ30Z555_I2C_ADDR == 11


(***************************************************************************)
(* Integer helpers                                                          *)
(***************************************************************************)
POW2 == << 1, 2, 4, 8, 16, 32, 64, 128, 256, 512, 1024, 2048, 4096, 8192,
           16384, 32768, 65536, 131072, 262144, 524288, 1048576, 2097152,
           4194304, 8388608, 16777216, 33554432, 67108864, 134217728,
           268435456, 536870912, 1073741824 >>

Pow2(k) == POW2[k + 1]

\* bit k of the unsigned value v:  (v >> k) & 1
BitOf(v, k) == (v \div Pow2(k)) % 2

RECURSIVE BitLen(_)
BitLen(v) == IF v = 0 THEN 0 ELSE 1 + BitLen(v \div 2)

\* round-to-nearest, ties-to-even of num / 2^k, for 1 <= k <= 30
RoundShift(num, k) ==
    LET q == num \div Pow2(k)
        r == num % Pow2(k)
        half == Pow2(k - 1)
    IN  IF r > half \/ (r = half /\ q % 2 = 1) THEN q + 1 ELSE q

(***************************************************************************)
(* uint32_t as two 16-bit limbs                                             *)
(***************************************************************************)
U32(hi, lo) == [hi |-> hi, lo |-> lo]

\* value |= (1u << i), 0 <= i <= 31
OrBit32(value, i) ==
    IF i < 16
    THEN IF BitOf(value.lo, i) = 1 THEN value
         ELSE [value EXCEPT !.lo = value.lo + Pow2(i)]
    ELSE IF BitOf(value.hi, i - 16) = 1 THEN value
         ELSE [value EXCEPT !.hi = value.hi + Pow2(i - 16)]

(***************************************************************************)
(* IEEE-754 binary32 on integers.  A float is [s, m, e]: (-1)^s * m * 2^e   *)
(* with 2^23 <= m < 2^24, or m = 0 for zero.  The exponent range of the     *)
(* values the decoder handles stays far inside the normal range, so         *)
(* subnormals, infinities and NaN do not occur.                             *)
(***************************************************************************)
F32(s, m, e) == [s |-> s, m |-> m, e |-> e]

f_0_0 == F32(0, 0, 0)                   \* 0.0f
f_1_0 == F32(0, 8388608, -23)           \* 1.0f
f_0_001 == F32(0, 8589935, -33)         \* 0.001f
f_0_1 == F32(0, 13421773, -27)          \* 0.1f
f_m273_15 == F32(1, 8950579, -15)       \* -273.15f

\* normalise and round an exact magnitude mag * 2^e (mag < 2^31) to binary32
F32Round(s, mag, e) ==
    LET bl == BitLen(mag) IN
    IF mag = 0 THEN F32(0, 0, 0)
    ELSE IF bl <= 24 THEN F32(s, mag * Pow2(24 - bl), e - (24 - bl))
    ELSE LET k == bl - 24
             q == RoundShift(mag, k)
         IN  IF q = Pow2(24) THEN F32(s, Pow2(23), e + k + 1)
             ELSE F32(s, q, e + k)

\* variant: the raw word is converted as a signed 16-bit value
I2F_signed(raw) ==
    IF raw >= 32768 THEN F32Round(1, 65536 - raw, 0) ELSE F32Round(0, raw, 0)

\* (float)raw for an unsigned 16-bit raw: exact
I2F(raw) == F32Round(0, raw, 0)

\* a * b, correctly rounded; the 48-bit product is formed from 12-bit limbs
FMul(a, b) ==
    LET s == (a.s + b.s) % 2 IN
    IF a.m = 0 \/ b.m = 0 THEN F32(s, 0, 0)
    ELSE
    LET a1 == a.m \div 4096
        a0 == a.m % 4096
        b1 == b.m \div 4096
        b0 == b.m % 4096
        mid == a1 * b0 + a0 * b1
        t == a0 * b0 + (mid % 4096) * 4096
        L == t % Pow2(24)
        H == a1 * b1 + (mid \div 4096) + (t \div Pow2(24))
        \* product = H * 2^24 + L,  2^22 <= H < 2^24
        wide == H >= Pow2(23)
        q0 == IF wide THEN H ELSE 2 * H + (L \div Pow2(23))
        r == IF wide THEN L ELSE L % Pow2(23)
        half == IF wide THEN Pow2(23) ELSE Pow2(22)
        ex == a.e + b.e + (IF wide THEN 24 ELSE 23)
        q == IF r > half \/ (r = half /\ q0 % 2 = 1) THEN q0 + 1 ELSE q0
    IN  IF q = Pow2(24) THEN F32(s, Pow2(23), ex + 1) ELSE F32(s, q, ex)

\* a + b, correctly rounded; the smaller operand is aligned with three
\* extra bits (guard, round, sticky)
FAdd(a, b) ==
    IF a.m = 0 THEN (IF b.m = 0 THEN F32(IF a.s = 1 /\ b.s = 1 THEN 1 ELSE 0, 0, 0) ELSE b)
    ELSE IF b.m = 0 THEN a
    ELSE
    LET aBig == a.e > b.e \/ (a.e = b.e /\ a.m >= b.m)
        big == IF aBig THEN a ELSE b
        sml == IF aBig THEN b ELSE a
        d == big.e - sml.e
        B == big.m * 8
        S0 == sml.m * 8
        S == IF d >= 27 THEN 1
             ELSE IF d = 0 THEN S0
             ELSE (S0 \div Pow2(d)) + (IF S0 % Pow2(d) # 0 /\ (S0 \div Pow2(d)) % 2 = 0 THEN 1 ELSE 0)
        R == IF big.s = sml.s THEN B + S ELSE B - S
    IN  F32Round(big.s, R, big.e - 3)

\* variant: rounding toward minus infinity
F2Int_floor(v) ==
    LET frac == v.m # 0 /\ v.e < 0 /\ (-v.e >= 31 \/ v.m % Pow2(-v.e) # 0)
        mag == IF v.m = 0 THEN 0
               ELSE IF v.e >= 0 THEN v.m * Pow2(v.e)
               ELSE IF -v.e >= 31 THEN 0
               ELSE v.m \div Pow2(-v.e)
    IN  IF v.s = 1 THEN (IF frac THEN -(mag + 1) ELSE -mag) ELSE mag

\* (int)val: truncation toward zero
F2Int(v) ==
    LET mag == IF v.m = 0 THEN 0
               ELSE IF v.e >= 0 THEN v.m * Pow2(v.e)
               ELSE IF -v.e >= 31 THEN 0
               ELSE v.m \div Pow2(-v.e)
    IN  IF v.s = 1 THEN -mag ELSE mag

\* the value of v in thousandths, rounded to nearest (ties to even), as
\* printf("%.3f") rounds the exact binary value;  |v| * 1000 = m * 125 * 2^(e+3)
F2Milli(v) ==
    LET M == v.m * 125
        E == v.e + 3
    IN  IF v.m = 0 THEN 0
        ELSE IF E >= 0 THEN M * Pow2(E)
        ELSE IF -E >= 32 THEN 0
        ELSE IF -E = 31 THEN (IF M > Pow2(30) THEN 1 ELSE 0)
        ELSE RoundShift(M, -E)

(***************************************************************************)
(* Command codes and the static tables                                      *)
(***************************************************************************)
BQ30Z555_CMD_SERIAL_NUMBER == 28

BQ30Z555_CMD_MANUFACTURER_NAME == 32

BQ30Z555_CMD_DEVICE_NAME == 33

BQ30Z555_CMD_DEVICE_CHEMISTRY == 34

BQ30Z555_CMD_MANUFACTURER_DATA == 35

BQ30Z555_CMD_MANUFACTURER_DATE == 27

BQ30Z555_CMD_VOLTAGE == 9

\* variant: Temperature is given the command code of Voltage
BQ30Z555_CMD_TEMPERATURE_duplicate == BQ30Z555_CMD_VOLTAGE

BQ30Z555_CMD_TEMPERATURE == 8

BQ30Z555_CMD_CURRENT == 10

BQ30Z555_CMD_CELL_VOLTAGE1 == 63

BQ30Z555_CMD_CELL_VOLTAGE2 == 62

BQ30Z555_CMD_CELL_VOLTAGE3 == 61

BQ30Z555_CMD_CELL_VOLTAGE4 == 60

BQ30Z555_CMD_CYCLE_COUNT == 23

BQ30Z555_CMD_CHARGING_VOLTAGE == 21

BQ30Z555_CMD_DESIGN_VOLTAGE == 25

BQ30Z555_CMD_MIN_SYS_V == 93

BQ30Z555_CMD_AVERAGE_CURRENT == 11

BQ30Z555_CMD_CHARGING_CURRENT == 20

BQ30Z555_CMD_TURBO_CURRENT == 94

BQ30Z555_CMD_RELATIVE_STATE_OF_CHARGE == 13

BQ30Z555_CMD_ABSOLUTE_STATE_OF_CHARGE == 14

BQ30Z555_CMD_STATE_OF_HEALTH == 79

BQ30Z555_CMD_REMAINING_CAPACITY == 15

BQ30Z555_CMD_FULL_CHARGE_CAPACITY == 16

BQ30Z555_CMD_DESIGN_CAPACITY == 24

BQ30Z555_CMD_RUN_TIME_TO_EMPTY == 17

BQ30Z555_CMD_AVERAGE_TIME_TO_EMPTY == 18

BQ30Z555_CMD_AVERAGE_TIME_TO_FULL == 19

BQ30Z555_CMD_BATTERY_STATUS == 22

BQ30Z555_CMD_SAFETY_ALERT == 80

BQ30Z555_CMD_SAFETY_STATUS == 81

BQ30Z555_CMD_PF_ALERT == 82

BQ30Z555_CMD_PF_STATUS == 83

BQ30Z555_CMD_OPERATION_STATUS == 84

BQ30Z555_CMD_CHARGING_STATUS == 85

BQ30Z555_CMD_GAUGING_STATUS == 86

BQ30Z555_CMD_MANUFACTURING_STATUS == 87

BQ30Z555_CMD_LIFETIME_DATA1 == 96

SAFETY_ALERT_BITS ==
    << [bit |-> 0, width |-> 1, desc |-> "OCC"],
       [bit |-> 1, width |-> 1, desc |-> "OCD"],
       [bit |-> 2, width |-> 1, desc |-> "COV"],
       [bit |-> 3, width |-> 1, desc |-> "CUV"],
       [bit |-> 4, width |-> 1, desc |-> "OTC"],
       [bit |-> 5, width |-> 1, desc |-> "OTD"],
       [bit |-> 6, width |-> 1, desc |-> "SCD"],
       [bit |-> 7, width |-> 1, desc |-> "OLD"],
       [bit |-> 8, width |-> 1, desc |-> "RSVD8"],
       [bit |-> 9, width |-> 1, desc |-> "RSVD9"],
       [bit |-> 10, width |-> 1, desc |-> "RSVD10"],
       [bit |-> 11, width |-> 1, desc |-> "RSVD11"],
       [bit |-> 12, width |-> 1, desc |-> "RSVD12"],
       [bit |-> 13, width |-> 1, desc |-> "PF"],
       [bit |-> 14, width |-> 1, desc |-> "SLEEP"],
       [bit |-> 15, width |-> 1, desc |-> "RSVD15"] >>

BITS_SAFETY_STATUS ==
    << [bit |-> 0, width |-> 1, desc |-> "CUV"],
       [bit |-> 1, width |-> 1, desc |-> "COV"],
       [bit |-> 2, width |-> 1, desc |-> "OCC1"],
       [bit |-> 3, width |-> 1, desc |-> "OCC2"],
       [bit |-> 4, width |-> 1, desc |-> "OCD1"],
       [bit |-> 5, width |-> 1, desc |-> "OCD2"],
       [bit |-> 6, width |-> 1, desc |-> "OLD"],
       [bit |-> 7, width |-> 1, desc |-> "OLDL"],
       [bit |-> 8, width |-> 1, desc |-> "SCC"],
       [bit |-> 9, width |-> 1, desc |-> "SCCL"],
       [bit |-> 10, width |-> 1, desc |-> "SCD"],
       [bit |-> 11, width |-> 1, desc |-> "SCDL"],
       [bit |-> 12, width |-> 1, desc |-> "OTC"],
       [bit |-> 13, width |-> 1, desc |-> "OTD"],
       [bit |-> 14, width |-> 1, desc |-> "CUVC"],
       [bit |-> 15, width |-> 1, desc |-> "RSVD15"],
       [bit |-> 16, width |-> 1, desc |-> "OTF"],
       [bit |-> 17, width |-> 1, desc |-> "HWD"],
       [bit |-> 18, width |-> 1, desc |-> "PTO"],
       [bit |-> 19, width |-> 1, desc |-> "RSVD19"],
       [bit |-> 20, width |-> 1, desc |-> "CTO"],
       [bit |-> 21, width |-> 1, desc |-> "RSVD21"],
       [bit |-> 22, width |-> 1, desc |-> "OC"],
       [bit |-> 23, width |-> 1, desc |-> "CHGC"],
       [bit |-> 24, width |-> 1, desc |-> "CHGV"],
       [bit |-> 25, width |-> 1, desc |-> "RSVD25"],
       [bit |-> 26, width |-> 1, desc |-> "RSVD26"],
       [bit |-> 27, width |-> 1, desc |-> "RSVD27"],
       [bit |-> 28, width |-> 1, desc |-> "RSVD28"],
       [bit |-> 29, width |-> 1, desc |-> "RSVD29"],
       [bit |-> 30, width |-> 1, desc |-> "RSVD30"],
       [bit |-> 31, width |-> 1, desc |-> "RSVD31"] >>

BITS_PF_ALERT ==
    << [bit |-> 0, width |-> 1, desc |-> "CUV"],
       [bit |-> 1, width |-> 1, desc |-> "COV"],
       [bit |-> 2, width |-> 1, desc |-> "CUDEP"],
       [bit |-> 3, width |-> 1, desc |-> "RSVD3"],
       [bit |-> 4, width |-> 1, desc |-> "OTCE"],
       [bit |-> 5, width |-> 1, desc |-> "RSVD5"],
       [bit |-> 6, width |-> 1, desc |-> "OTF"],
       [bit |-> 7, width |-> 1, desc |-> "QIM"],
       [bit |-> 8, width |-> 1, desc |-> "CB"],
       [bit |-> 9, width |-> 1, desc |-> "IMP"],
       [bit |-> 10, width |-> 1, desc |-> "CD"],
       [bit |-> 11, width |-> 1, desc |-> "VIMR"],
       [bit |-> 12, width |-> 1, desc |-> "VIMA"],
       [bit |-> 13, width |-> 1, desc |-> "RSVD13"],
       [bit |-> 14, width |-> 1, desc |-> "RSVD14"],
       [bit |-> 15, width |-> 1, desc |-> "RSVD15"],
       [bit |-> 16, width |-> 1, desc |-> "CFETF"],
       [bit |-> 17, width |-> 1, desc |-> "DFET"],
       [bit |-> 18, width |-> 1, desc |-> "THERM"],
       [bit |-> 19, width |-> 1, desc |-> "FUSE"],
       [bit |-> 20, width |-> 1, desc |-> "AFER"],
       [bit |-> 21, width |-> 1, desc |-> "AFEC"],
       [bit |-> 22, width |-> 1, desc |-> "2LVL"],
       [bit |-> 23, width |-> 1, desc |-> "RSVD23"],
       [bit |-> 24, width |-> 1, desc |-> "RSVD24"],
       [bit |-> 25, width |-> 1, desc |-> "OCECO"],
       [bit |-> 26, width |-> 1, desc |-> "RSVD26"],
       [bit |-> 27, width |-> 1, desc |-> "RSVD27"],
       [bit |-> 28, width |-> 1, desc |-> "RSVD28"],
       [bit |-> 29, width |-> 1, desc |-> "RSVD29"],
       [bit |-> 30, width |-> 1, desc |-> "RSVD30"],
       [bit |-> 31, width |-> 1, desc |-> "RSVD31"] >>

BITS_PF_STATUS ==
    << [bit |-> 0, width |-> 1, desc |-> "CUV"],
       [bit |-> 1, width |-> 1, desc |-> "COV"],
       [bit |-> 2, width |-> 1, desc |-> "CUDEP"],
       [bit |-> 3, width |-> 1, desc |-> "RSVD3"],
       [bit |-> 4, width |-> 1, desc |-> "OTCE"],
       [bit |-> 5, width |-> 1, desc |-> "RSVD5"],
       [bit |-> 6, width |-> 1, desc |-> "OTF"],
       [bit |-> 7, width |-> 1, desc |-> "QIM"],
       [bit |-> 8, width |-> 1, desc |-> "CB"],
       [bit |-> 9, width |-> 1, desc |-> "IMP"],
       [bit |-> 10, width |-> 1, desc |-> "CD"],
       [bit |-> 11, width |-> 1, desc |-> "VIMR"],
       [bit |-> 12, width |-> 1, desc |-> "VIMA"],
       [bit |-> 13, width |-> 1, desc |-> "RSVD13"],
       [bit |-> 14, width |-> 1, desc |-> "RSVD14"],
       [bit |-> 15, width |-> 1, desc |-> "RSVD15"],
       [bit |-> 16, width |-> 1, desc |-> "CFETF"],
       [bit |-> 17, width |-> 1, desc |-> "DFET"],
       [bit |-> 18, width |-> 1, desc |-> "THERM"],
       [bit |-> 19, width |-> 1, desc |-> "FUSE"],
       [bit |-> 20, width |-> 1, desc |-> "AFER"],
       [bit |-> 21, width |-> 1, desc |-> "AFEC"],
       [bit |-> 22, width |-> 1, desc |-> "2LVL"],
       [bit |-> 23, width |-> 1, desc |-> "RSVD23"],
       [bit |-> 24, width |-> 1, desc |-> "RSVD24"],
       [bit |-> 25, width |-> 1, desc |-> "OCECO"],
       [bit |-> 26, width |-> 1, desc |-> "RSVD26"],
       [bit |-> 27, width |-> 1, desc |-> "RSVD27"],
       [bit |-> 28, width |-> 1, desc |-> "RSVD28"],
       [bit |-> 29, width |-> 1, desc |-> "RSVD29"],
       [bit |-> 30, width |-> 1, desc |-> "RSVD30"],
       [bit |-> 31, width |-> 1, desc |-> "RSVD31"] >>

BITS_OPERATION_STATUS ==
    << [bit |-> 0, width |-> 1, desc |-> "PRES"],
       [bit |-> 1, width |-> 1, desc |-> "DSG"],
       [bit |-> 2, width |-> 1, desc |-> "CHG"],
       [bit |-> 3, width |-> 1, desc |-> "PCHG"],
       [bit |-> 4, width |-> 1, desc |-> "GPOD"],
       [bit |-> 5, width |-> 1, desc |-> "FUSE"],
       [bit |-> 6, width |-> 1, desc |-> "CB"],
       [bit |-> 7, width |-> 1, desc |-> "RSVD7"],
       [bit |-> 8, width |-> 2, desc |-> "SEC0/1"],
       [bit |-> 10, width |-> 1, desc |-> "CAL"],
       [bit |-> 11, width |-> 1, desc |-> "SS"],
       [bit |-> 12, width |-> 1, desc |-> "PF"],
       [bit |-> 13, width |-> 1, desc |-> "XDSG"],
       [bit |-> 14, width |-> 1, desc |-> "XCHG"],
       [bit |-> 15, width |-> 1, desc |-> "SLEEP"],
       [bit |-> 16, width |-> 1, desc |-> "SDM"],
       [bit |-> 17, width |-> 1, desc |-> "RSVD17"],
       [bit |-> 18, width |-> 1, desc |-> "AUTH"],
       [bit |-> 19, width |-> 1, desc |-> "AWD"],
       [bit |-> 20, width |-> 1, desc |-> "FVS"],
       [bit |-> 21, width |-> 1, desc |-> "CALO"],
       [bit |-> 22, width |-> 1, desc |-> "SDV"],
       [bit |-> 23, width |-> 1, desc |-> "SLEEPM"],
       [bit |-> 24, width |-> 1, desc |-> "INIT"],
       [bit |-> 25, width |-> 1, desc |-> "SMBLCAL"],
       [bit |-> 26, width |-> 1, desc |-> "SLEEPQMAX"],
       [bit |-> 27, width |-> 1, desc |-> "SLEEPC"],
       [bit |-> 28, width |-> 1, desc |-> "XLSBS"],
       [bit |-> 29, width |-> 1, desc |-> "RSVD29"],
       [bit |-> 30, width |-> 1, desc |-> "RSVD30"],
       [bit |-> 31, width |-> 1, desc |-> "RSVD31"] >>

BITS_CHARGING_STATUS ==
    << [bit |-> 0, width |-> 1, desc |-> "UT"],
       [bit |-> 1, width |-> 1, desc |-> "LT"],
       [bit |-> 2, width |-> 1, desc |-> "STL"],
       [bit |-> 3, width |-> 1, desc |-> "RT"],
       [bit |-> 4, width |-> 1, desc |-> "ST"],
       [bit |-> 5, width |-> 1, desc |-> "HT"],
       [bit |-> 6, width |-> 1, desc |-> "OT"],
       [bit |-> 7, width |-> 1, desc |-> "PV"],
       [bit |-> 8, width |-> 1, desc |-> "LV"],
       [bit |-> 9, width |-> 1, desc |-> "MV"],
       [bit |-> 10, width |-> 1, desc |-> "HV"],
       [bit |-> 11, width |-> 1, desc |-> "IN"],
       [bit |-> 12, width |-> 1, desc |-> "SU"],
       [bit |-> 13, width |-> 1, desc |-> "CCR"],
       [bit |-> 14, width |-> 1, desc |-> "CVR"],
       [bit |-> 15, width |-> 1, desc |-> "CCC"] >>

BITS_GAUGING_STATUS ==
    << [bit |-> 0, width |-> 1, desc |-> "RESTDOD0"],
       [bit |-> 1, width |-> 1, desc |-> "DSG"],
       [bit |-> 2, width |-> 1, desc |-> "RU"],
       [bit |-> 3, width |-> 1, desc |-> "VOK"],
       [bit |-> 4, width |-> 1, desc |-> "QEN"],
       [bit |-> 5, width |-> 1, desc |-> "FD"],
       [bit |-> 6, width |-> 1, desc |-> "FC"],
       [bit |-> 7, width |-> 1, desc |-> "NSFM"],
       [bit |-> 8, width |-> 1, desc |-> "VDQ"],
       [bit |-> 9, width |-> 1, desc |-> "QMAX"],
       [bit |-> 10, width |-> 1, desc |-> "RX"],
       [bit |-> 11, width |-> 1, desc |-> "LDMD"],
       [bit |-> 12, width |-> 1, desc |-> "OCVFR"],
       [bit |-> 13, width |-> 1, desc |-> "TDA"],
       [bit |-> 14, width |-> 1, desc |-> "TCA"],
       [bit |-> 15, width |-> 1, desc |-> "LPF"] >>

BITS_MANUFACTURING_STATUS ==
    << [bit |-> 0, width |-> 1, desc |-> "PCHG"],
       [bit |-> 1, width |-> 1, desc |-> "CHG"],
       [bit |-> 2, width |-> 1, desc |-> "DSG"],
       [bit |-> 3, width |-> 1, desc |-> "GAUGE"],
       [bit |-> 4, width |-> 1, desc |-> "FET"],
       [bit |-> 5, width |-> 1, desc |-> "LF"],
       [bit |-> 6, width |-> 1, desc |-> "PF"],
       [bit |-> 7, width |-> 1, desc |-> "BBR"],
       [bit |-> 8, width |-> 1, desc |-> "FUSE"],
       [bit |-> 9, width |-> 1, desc |-> "RSVD9"],
       [bit |-> 10, width |-> 1, desc |-> "RSVD10"],
       [bit |-> 11, width |-> 1, desc |-> "RSVD11"],
       [bit |-> 12, width |-> 1, desc |-> "RSVD12"],
       [bit |-> 13, width |-> 1, desc |-> "RSVD13"],
       [bit |-> 14, width |-> 1, desc |-> "RSVD14"],
       [bit |-> 15, width |-> 1, desc |-> "CAL"] >>

BITS_BATTERY_STATUS ==
    << [bit |-> 0, width |-> 4, desc |-> "ERR"],
       [bit |-> 4, width |-> 1, desc |-> "FD"],
       [bit |-> 5, width |-> 1, desc |-> "FC"],
       [bit |-> 6, width |-> 1, desc |-> "DSG"],
       [bit |-> 7, width |-> 1, desc |-> "INIT"],
       [bit |-> 8, width |-> 1, desc |-> "RTA"],
       [bit |-> 9, width |-> 1, desc |-> "RCA"],
       [bit |-> 10, width |-> 1, desc |-> "RSVD10"],
       [bit |-> 11, width |-> 1, desc |-> "TDA"],
       [bit |-> 12, width |-> 1, desc |-> "OTA"],
       [bit |-> 13, width |-> 1, desc |-> "RSVD13"],
       [bit |-> 14, width |-> 1, desc |-> "TCA"],
       [bit |-> 15, width |-> 1, desc |-> "OCA"] >>

bq_commands ==
    << [reg |-> BQ30Z555_CMD_SERIAL_NUMBER, name |-> "SerialNumber", unit |-> "", offset |-> f_0_0, scaling |-> f_1_0,
        type |-> "WORD_INTEGER", bits |-> << >>, bits_count |-> 0],
       [reg |-> BQ30Z555_CMD_MANUFACTURER_NAME, name |-> "ManufacturerName", unit |-> "", offset |-> f_0_0, scaling |-> f_1_0,
        type |-> "BLOCK_ASCII", bits |-> << >>, bits_count |-> 0],
       [reg |-> BQ30Z555_CMD_DEVICE_NAME, name |-> "DeviceName", unit |-> "", offset |-> f_0_0, scaling |-> f_1_0,
        type |-> "BLOCK_ASCII", bits |-> << >>, bits_count |-> 0],
       [reg |-> BQ30Z555_CMD_DEVICE_CHEMISTRY, name |-> "DeviceChemistry", unit |-> "", offset |-> f_0_0, scaling |-> f_1_0,
        type |-> "BLOCK_ASCII", bits |-> << >>, bits_count |-> 0],
       [reg |-> BQ30Z555_CMD_MANUFACTURER_DATA, name |-> "ManufacturerData", unit |-> "", offset |-> f_0_0, scaling |-> f_1_0,
        type |-> "BLOCK_ASCII", bits |-> << >>, bits_count |-> 0],
       [reg |-> BQ30Z555_CMD_MANUFACTURER_DATE, name |-> "ManufacturerDate", unit |-> "", offset |-> f_0_0, scaling |-> f_1_0,
        type |-> "WORD_HEX", bits |-> << >>, bits_count |-> 0],
       [reg |-> BQ30Z555_CMD_VOLTAGE, name |-> "Voltage", unit |-> "V", offset |-> f_0_0, scaling |-> f_0_001,
        type |-> "WORD_FLOAT", bits |-> << >>, bits_count |-> 0],
       [reg |-> BQ30Z555_CMD_TEMPERATURE, name |-> "Temperature", unit |-> "°C", offset |-> f_m273_15, scaling |-> f_0_1,
        type |-> "WORD_FLOAT", bits |-> << >>, bits_count |-> 0],
       [reg |-> BQ30Z555_CMD_CURRENT, name |-> "Current", unit |-> "A", offset |-> f_0_0, scaling |-> f_0_001,
        type |-> "WORD_FLOAT", bits |-> << >>, bits_count |-> 0],
       [reg |-> BQ30Z555_CMD_CELL_VOLTAGE1, name |-> "Cell1Voltage", unit |-> "V", offset |-> f_0_0, scaling |-> f_0_001,
        type |-> "WORD_FLOAT", bits |-> << >>, bits_count |-> 0],
       [reg |-> BQ30Z555_CMD_CELL_VOLTAGE2, name |-> "Cell2Voltage", unit |-> "V", offset |-> f_0_0, scaling |-> f_0_001,
        type |-> "WORD_FLOAT", bits |-> << >>, bits_count |-> 0],
       [reg |-> BQ30Z555_CMD_CELL_VOLTAGE3, name |-> "Cell3Voltage", unit |-> "V", offset |-> f_0_0, scaling |-> f_0_001,
        type |-> "WORD_FLOAT", bits |-> << >>, bits_count |-> 0],
       [reg |-> BQ30Z555_CMD_CELL_VOLTAGE4, name |-> "Cell4Voltage", unit |-> "V", offset |-> f_0_0, scaling |-> f_0_001,
        type |-> "WORD_FLOAT", bits |-> << >>, bits_count |-> 0],
       [reg |-> BQ30Z555_CMD_CYCLE_COUNT, name |-> "CycleCount", unit |-> "cycles", offset |-> f_0_0, scaling |-> f_1_0,
        type |-> "WORD_INTEGER", bits |-> << >>, bits_count |-> 0],
       [reg |-> BQ30Z555_CMD_CHARGING_VOLTAGE, name |-> "ChargingVoltage", unit |-> "V", offset |-> f_0_0, scaling |-> f_0_001,
        type |-> "WORD_FLOAT", bits |-> << >>, bits_count |-> 0],
       [reg |-> BQ30Z555_CMD_DESIGN_VOLTAGE, name |-> "DesignVoltage", unit |-> "V", offset |-> f_0_0, scaling |-> f_0_001,
        type |-> "WORD_FLOAT", bits |-> << >>, bits_count |-> 0],
       [reg |-> BQ30Z555_CMD_MIN_SYS_V, name |-> "MinSystemVoltage", unit |-> "V", offset |-> f_0_0, scaling |-> f_0_001,
        type |-> "WORD_FLOAT", bits |-> << >>, bits_count |-> 0],
       [reg |-> BQ30Z555_CMD_AVERAGE_CURRENT, name |-> "AverageCurrent", unit |-> "A", offset |-> f_0_0, scaling |-> f_0_001,
        type |-> "WORD_FLOAT", bits |-> << >>, bits_count |-> 0],
       [reg |-> BQ30Z555_CMD_CHARGING_CURRENT, name |-> "ChargingCurrent", unit |-> "A", offset |-> f_0_0, scaling |-> f_0_001,
        type |-> "WORD_FLOAT", bits |-> << >>, bits_count |-> 0],
       [reg |-> BQ30Z555_CMD_TURBO_CURRENT, name |-> "TurboCurrent", unit |-> "A", offset |-> f_0_0, scaling |-> f_0_001,
        type |-> "WORD_FLOAT", bits |-> << >>, bits_count |-> 0],
       [reg |-> BQ30Z555_CMD_RELATIVE_STATE_OF_CHARGE, name |-> "RelativeSoC", unit |-> "%", offset |-> f_0_0, scaling |-> f_1_0,
        type |-> "WORD_INTEGER", bits |-> << >>, bits_count |-> 0],
       [reg |-> BQ30Z555_CMD_ABSOLUTE_STATE_OF_CHARGE, name |-> "AbsoluteSoC", unit |-> "%", offset |-> f_0_0, scaling |-> f_1_0,
        type |-> "WORD_INTEGER", bits |-> << >>, bits_count |-> 0],
       [reg |-> BQ30Z555_CMD_STATE_OF_HEALTH, name |-> "State of Health", unit |-> "%", offset |-> f_0_0, scaling |-> f_1_0,
        type |-> "WORD_INTEGER", bits |-> << >>, bits_count |-> 0],
       [reg |-> BQ30Z555_CMD_REMAINING_CAPACITY, name |-> "RemainingCapacity", unit |-> "mAh", offset |-> f_0_0, scaling |-> f_1_0,
        type |-> "WORD_INTEGER", bits |-> << >>, bits_count |-> 0],
       [reg |-> BQ30Z555_CMD_FULL_CHARGE_CAPACITY, name |-> "FullChargeCapacity", unit |-> "mAh", offset |-> f_0_0, scaling |-> f_1_0,
        type |-> "WORD_INTEGER", bits |-> << >>, bits_count |-> 0],
       [reg |-> BQ30Z555_CMD_DESIGN_CAPACITY, name |-> "DesignCapacity", unit |-> "mAh", offset |-> f_0_0, scaling |-> f_1_0,
        type |-> "WORD_INTEGER", bits |-> << >>, bits_count |-> 0],
       [reg |-> BQ30Z555_CMD_RUN_TIME_TO_EMPTY, name |-> "RunTimeToEmpty", unit |-> "min", offset |-> f_0_0, scaling |-> f_1_0,
        type |-> "WORD_INTEGER", bits |-> << >>, bits_count |-> 0],
       [reg |-> BQ30Z555_CMD_AVERAGE_TIME_TO_EMPTY, name |-> "AvgTimeToEmpty", unit |-> "min", offset |-> f_0_0, scaling |-> f_1_0,
        type |-> "WORD_INTEGER", bits |-> << >>, bits_count |-> 0],
       [reg |-> BQ30Z555_CMD_AVERAGE_TIME_TO_FULL, name |-> "AvgTimeToFull", unit |-> "min", offset |-> f_0_0, scaling |-> f_1_0,
        type |-> "WORD_INTEGER", bits |-> << >>, bits_count |-> 0],
       [reg |-> BQ30Z555_CMD_BATTERY_STATUS, name |-> "BatteryStatus", unit |-> "", offset |-> f_0_0, scaling |-> f_0_0,
        type |-> "BLOCK_BITS", bits |-> BITS_BATTERY_STATUS, bits_count |-> Len(BITS_BATTERY_STATUS)],
       [reg |-> BQ30Z555_CMD_SAFETY_ALERT, name |-> "SafetyAlert", unit |-> "", offset |-> f_0_0, scaling |-> f_0_0,
        type |-> "BLOCK_BITS", bits |-> SAFETY_ALERT_BITS, bits_count |-> Len(SAFETY_ALERT_BITS)],
       [reg |-> BQ30Z555_CMD_SAFETY_STATUS, name |-> "SafetyStatus", unit |-> "", offset |-> f_0_0, scaling |-> f_0_0,
        type |-> "BLOCK_BITS", bits |-> BITS_SAFETY_STATUS, bits_count |-> Len(BITS_SAFETY_STATUS)],
       [reg |-> BQ30Z555_CMD_PF_ALERT, name |-> "PFAlert", unit |-> "", offset |-> f_0_0, scaling |-> f_0_0,
        type |-> "BLOCK_BITS", bits |-> BITS_PF_ALERT, bits_count |-> Len(BITS_PF_ALERT)],
       [reg |-> BQ30Z555_CMD_PF_STATUS, name |-> "PFStatus", unit |-> "", offset |-> f_0_0, scaling |-> f_0_0,
        type |-> "BLOCK_BITS", bits |-> BITS_PF_STATUS, bits_count |-> Len(BITS_PF_STATUS)],
       [reg |-> BQ30Z555_CMD_OPERATION_STATUS, name |-> "OperationStatus", unit |-> "", offset |-> f_0_0, scaling |-> f_0_0,
        type |-> "BLOCK_BITS", bits |-> BITS_OPERATION_STATUS, bits_count |-> Len(BITS_OPERATION_STATUS)],
       [reg |-> BQ30Z555_CMD_CHARGING_STATUS, name |-> "ChargingStatus", unit |-> "", offset |-> f_0_0, scaling |-> f_0_0,
        type |-> "BLOCK_BITS", bits |-> BITS_CHARGING_STATUS, bits_count |-> Len(BITS_CHARGING_STATUS)],
       [reg |-> BQ30Z555_CMD_GAUGING_STATUS, name |-> "GaugingStatus", unit |-> "", offset |-> f_0_0, scaling |-> f_0_0,
        type |-> "BLOCK_BITS", bits |-> BITS_GAUGING_STATUS, bits_count |-> Len(BITS_GAUGING_STATUS)],
       [reg |-> BQ30Z555_CMD_MANUFACTURING_STATUS, name |-> "ManufacturingStatus", unit |-> "", offset |-> f_0_0, scaling |-> f_0_0,
        type |-> "BLOCK_BITS", bits |-> BITS_MANUFACTURING_STATUS, bits_count |-> Len(BITS_MANUFACTURING_STATUS)] >>

\* (float)raw / 1000.0f, correctly rounded, by binary long division:
\* raw / 1000 = (q + rem / 1000) * 2^e throughout
RECURSIVE DivBits1000(_, _, _)
DivBits1000(q, rem, e) ==
    IF q >= Pow2(23)
    THEN IF 2 * rem > 1000 \/ (2 * rem = 1000 /\ q % 2 = 1)
         THEN (IF q + 1 = Pow2(24) THEN F32(0, Pow2(23), e + 1) ELSE F32(0, q + 1, e))
         ELSE F32(0, q, e)
    ELSE DivBits1000(2 * q + (IF 2 * rem >= 1000 THEN 1 ELSE 0), (2 * rem) % 1000, e - 1)

FDiv1000(raw) ==
    IF raw = 0 THEN F32(0, 0, 0) ELSE DivBits1000(raw \div 1000, raw % 1000, 0)

(***************************************************************************)
(* printf conversions.  Rendered text is a sequence of character codes.     *)
(***************************************************************************)
CH_DOT == 46      \* '.'
CH_MINUS == 45    \* '-'
CH_SPACE == 32    \* ' '
CH_X == 88        \* 'X'
CH_x == 120       \* 'x'
CH_0 == 48        \* '0'
CH_A == 65        \* 'A'

DecDigit(d) == CH_0 + d
HexDigit(d) == IF d < 10 THEN CH_0 + d ELSE CH_A + (d - 10)

\* "%d" of a non-negative value
RECURSIVE DecText(_)
DecText(v) == IF v < 10 THEN << DecDigit(v) >>
              ELSE Append(DecText(v \div 10), DecDigit(v % 10))

\* "%d"
FmtInt(v) == IF v < 0 THEN << CH_MINUS >> \o DecText(-v) ELSE DecText(v)

\* "%02.3f": sign, integer part, '.', three decimals
FmtFixed3(v) ==
    LET milli == F2Milli(v) IN
    (IF v.s = 1 THEN << CH_MINUS >> ELSE << >>)
        \o DecText(milli \div 1000)
        \o << CH_DOT, DecDigit((milli \div 100) % 10),
              DecDigit((milli \div 10) % 10), DecDigit(milli % 10) >>

\* "%02X"
FmtHex2(b) == << HexDigit(b \div 16), HexDigit(b % 16) >>

\* "0x%08X" of a 16-bit raw value
FmtHex8(raw) ==
    << CH_0, CH_x, CH_0, CH_0, CH_0, CH_0 >>
        \o FmtHex2(raw \div 256) \o FmtHex2(raw % 256)

\* PRIu32 of a limb pair, by long division by ten
RECURSIVE FmtU32(_)
FmtU32(v) ==
    LET t == (v.hi % 10) * 65536 + v.lo
        q == U32(v.hi \div 10, t \div 10)
    IN  IF v.hi = 0 /\ v.lo < 10 THEN << DecDigit(v.lo) >>
        ELSE Append(FmtU32(q), DecDigit(t % 10))

\* "%.*s": at most prec characters, stopping at a terminating zero
FmtPrecS(s, prec) ==
    LET lim == IF prec < Len(s) THEN prec ELSE Len(s)
        zeros == { i \in 1..lim : s[i] = 0 }
        shown == IF zeros = {} THEN lim
                 ELSE (CHOOSE i \in zeros : \A j \in zeros : i <= j) - 1
    IN  SubSeq(s, 1, shown)

(***************************************************************************)
(* le16 and the bit extractor                                               *)
(***************************************************************************)
\* variant: big-endian assembly
le16_big_endian(p0, p1) == p0 * 256 + p1

le16(p0, p1) == p0 + p1 * 256

\* the for loop of bq_extract_bits; data is 1-indexed, so data[byte_idx]
\* of the code is data[byte_idx + 1]; bit_idx is a uint16_t
RECURSIVE extract_loop(_, _, _, _, _, _)
extract_loop(data, data_len, lsb_index, width, i, value) ==
    IF ~(i < width) THEN value
    ELSE LET bit_idx == (lsb_index + i) % 65536
             byte_idx == bit_idx \div 8
             bit_in_byte == bit_idx % 8
         IN  IF byte_idx >= data_len THEN value
             ELSE extract_loop(data, data_len, lsb_index, width, i + 1,
                               IF BitOf(data[byte_idx + 1], bit_in_byte) = 1
                               THEN OrBit32(value, i) ELSE value)

\* variant: a field that does not fit into the buffer reads as 0 altogether
bq_extract_bits_all_or_nothing(data, data_len, lsb_index, width) ==
    IF width > 0 /\ (lsb_index + width - 1) \div 8 >= data_len THEN U32(0, 0)
    ELSE extract_loop(data, data_len, lsb_index, width, 0, U32(0, 0))

bq_extract_bits(data, data_len, lsb_index, width) ==
    extract_loop(data, data_len, lsb_index, width, 0, U32(0, 0))

\* the harness before the call
NoValue == U32(-1, -1)
NoSteps == [value |-> NoValue, iters |-> 0, reads |-> << >>]

\* 1u << i is defined for i <= 31 only, and width is a uint8_t.  For
\* i >= 32 the result depends on the build: the shift count taken modulo
\* 32 (a shifter that uses the low five bits of the count) or a result of 0.
ShiftOutcomes == {"mod32", "zero"}

\* value |= (1u << i), any i of a uint8_t
OrShifted(value, i, build) ==
    IF i < 32 THEN OrBit32(value, i)
    ELSE IF build = "mod32" THEN OrBit32(value, i % 32)
    ELSE value

\* variant: the range test lets byte index len through; the byte behind
\* the buffer reads as 0
RECURSIVE extract_steps_off_by_one(_, _, _, _, _, _, _)
extract_steps_off_by_one(data, data_len, lsb_index, width, i, st, build) ==
    IF ~(i < width) THEN st
    ELSE LET bit_idx == (lsb_index + i) % 65536
             byte_idx == bit_idx \div 8
             bit_in_byte == bit_idx % 8
             byte == IF byte_idx < data_len THEN data[byte_idx + 1] ELSE 0
         IN  IF byte_idx > data_len THEN [st EXCEPT !.iters = st.iters + 1]
             ELSE extract_steps_off_by_one(data, data_len, lsb_index, width, i + 1,
                      [value |-> IF BitOf(byte, bit_in_byte) = 1
                                 THEN OrShifted(st.value, i, build) ELSE st.value,
                       iters |-> st.iters + 1,
                       reads |-> Append(st.reads, byte_idx)],
                      build)

\* the for loop of bq_extract_bits with its bookkeeping: st.value is the
\* accumulated value, st.iters the number of times the loop body was
\* entered, st.reads the byte indices at which data[] was read
RECURSIVE extract_steps(_, _, _, _, _, _, _)
extract_steps(data, data_len, lsb_index, width, i, st, build) ==
    IF ~(i < width) THEN st
    ELSE LET bit_idx == (lsb_index + i) % 65536
             byte_idx == bit_idx \div 8
             bit_in_byte == bit_idx % 8
         IN  IF byte_idx >= data_len THEN [st EXCEPT !.iters = st.iters + 1]
             ELSE extract_steps(data, data_len, lsb_index, width, i + 1,
                      [value |-> IF BitOf(data[byte_idx + 1], bit_in_byte) = 1
                                 THEN OrShifted(st.value, i, build) ELSE st.value,
                       iters |-> st.iters + 1,
                       reads |-> Append(st.reads, byte_idx)],
                      build)

(***************************************************************************)
(* Descriptors that are not in bq_commands but can be handed to the public  *)
(* bq_generic_dump: a null pointer, the BYTE kind and the BLOCK_HEX kind.   *)
(***************************************************************************)
NULL ==
    [reg |-> 0, name |-> "", unit |-> "", offset |-> f_0_0, scaling |-> f_0_0,
     type |-> "NULL", bits |-> << >>, bits_count |-> 0]

ByteEntry ==
    [reg |-> BQ30Z555_CMD_SERIAL_NUMBER, name |-> "Byte", unit |-> "",
     offset |-> f_0_0, scaling |-> f_1_0,
     type |-> "BYTE", bits |-> << >>, bits_count |-> 0]

HexEntry ==
    [reg |-> BQ30Z555_CMD_MANUFACTURER_DATA, name |-> "ManufacturerDataHex", unit |-> "",
     offset |-> f_0_0, scaling |-> f_1_0,
     type |-> "BLOCK_HEX", bits |-> << >>, bits_count |-> 0]

\* a word descriptor with scaling and offset both zero
ZeroEntry ==
    [reg |-> BQ30Z555_CMD_VOLTAGE, name |-> "Zero", unit |-> "",
     offset |-> f_0_0, scaling |-> f_0_0,
     type |-> "WORD_FLOAT", bits |-> << >>, bits_count |-> 0]

\* an integer-kind descriptor whose transformed values have fractions and
\* both signs
IntEntry ==
    [reg |-> BQ30Z555_CMD_TEMPERATURE, name |-> "TemperatureInt", unit |-> "",
     offset |-> f_m273_15, scaling |-> f_0_1,
     type |-> "WORD_INTEGER", bits |-> << >>, bits_count |-> 0]

\* a bit-field descriptor whose fields are defined out of bit order
BITS_OUT_OF_ORDER ==
    << [bit |-> 8, width |-> 2, desc |-> "HI"],
       [bit |-> 0, width |-> 1, desc |-> "LO"],
       [bit |-> 4, width |-> 4, desc |-> "MID"] >>

OrderEntry ==
    [reg |-> BQ30Z555_CMD_OPERATION_STATUS, name |-> "OutOfOrder", unit |-> "",
     offset |-> f_m273_15, scaling |-> f_0_1,
     type |-> "BLOCK_BITS", bits |-> BITS_OUT_OF_ORDER,
     bits_count |-> Len(BITS_OUT_OF_ORDER)]

BlockTypes == {"BLOCK_BITS", "BLOCK_ASCII", "BLOCK_HEX"}
WordTypes == {"WORD_HEX", "WORD_FLOAT", "WORD_INTEGER"}

(***************************************************************************)
(* Rendering                                                                *)
(***************************************************************************)
NoOutput == [kind |-> "none"]

\* one line of the bit-field listing: "[X]" / "[ ]" for a flag, the
\* unsigned value otherwise
RenderField(d, field) ==
    [desc |-> d.desc,
     text |-> IF d.width = 1
              THEN (IF field # U32(0, 0) THEN << CH_X >> ELSE << CH_SPACE >>)
              ELSE FmtU32(field)]

\* variant: the fields are listed by ascending bit position
bq_print_bits_from_buffer_bit_order(e, data, data_len) ==
    IF e.type = "NULL" \/ data_len = 0 \/ e.type # "BLOCK_BITS"
    THEN [ret |-> ESP_ERR_INVALID_ARG, out |-> NoOutput]
    ELSE [ret |-> 0,
          out |-> [kind |-> "bits", name |-> e.name,
                   fields |-> [i \in 1..e.bits_count |->
                       LET j == CHOOSE j \in 1..e.bits_count :
                                   Cardinality({k \in 1..e.bits_count :
                                       e.bits[k].bit < e.bits[j].bit}) = i - 1
                       IN  RenderField(e.bits[j],
                               bq_extract_bits(data, data_len, e.bits[j].bit, e.bits[j].width))]]]

bq_print_bits_from_buffer(e, data, data_len) ==
    IF e.type = "NULL" \/ data_len = 0 \/ e.type # "BLOCK_BITS"
    THEN [ret |-> ESP_ERR_INVALID_ARG, out |-> NoOutput]
    ELSE [ret |-> 0,
          out |-> [kind |-> "bits", name |-> e.name,
                   fields |-> [i \in 1..e.bits_count |->
                       RenderField(e.bits[i],
                           bq_extract_bits(data, data_len, e.bits[i].bit, e.bits[i].width))]]]

\* the in-place replacement loop run on resp_data[1 .. len]
Sanitize(b) == IF b < 32 \/ b >= 128 THEN CH_DOT ELSE b

SanitizeBlock(resp_data, blen) ==
    [i \in 1..Len(resp_data) |->
        IF i >= 2 /\ i <= 1 + blen THEN Sanitize(resp_data[i]) ELSE resp_data[i]]

\* "%02X " for every byte of s, one after the other
HexGroups(s) ==
    [k \in 1..(3 * Len(s)) |->
        IF (k - 1) % 3 = 2 THEN CH_SPACE
        ELSE FmtHex2(s[((k - 1) \div 3) + 1])[((k - 1) % 3) + 1]]

\* uint8_t resp_data[256] / uint8_t resp[256]
RESP_SIZE == 256

\* variant: the read length is computed in 8 bits
ReadLen_uint8(blen) == (1 + blen) % 256

\* the read length 1 + len of the second transaction; len is a uint8_t
\* promoted to int
ReadLen(blen) == 1 + blen

\* indices of resp_data[] read while a block entry is rendered: the
\* replacement loop and the printing loop walk resp_data[1 + pos] for
\* pos < len, "%.*s" reads at most len characters from &resp_data[1], and
\* the bit-field printer reads &resp_data[1] where the extractor does
RenderReads(e, resp_data, blen) ==
    IF e.type = "BLOCK_BITS"
    THEN IF blen = 0 THEN {}
         ELSE UNION { { 1 + r : r \in
                         { s.reads[k] : k \in 1..Len(s.reads) } } :
                      s \in { extract_steps(SubSeq(resp_data, 2, 1 + blen), blen,
                                            e.bits[i].bit, e.bits[i].width, 0,
                                            [NoSteps EXCEPT !.value = U32(0, 0)], "mod32") :
                              i \in 1..e.bits_count } }
    ELSE { 1 + p : p \in 0..(blen - 1) }

\* indices of resp[] read by the raw dump of lifetime blocks 2 and 3
LifetimeRawReads(blen) == { 1 + i : i \in 0..(blen - 1) }

\* variant: the payload is taken from byte 0 of the response, length byte
\* included
RenderBlock_from_byte0(e, resp_data, blen) ==
    IF e.type = "BLOCK_BITS"
    THEN bq_print_bits_from_buffer(e, SubSeq(resp_data, 1, blen), blen).out
    ELSE LET buf == [i \in 1..Len(resp_data) |->
                        IF i <= blen THEN Sanitize(resp_data[i]) ELSE resp_data[i]] IN
         IF e.type = "BLOCK_ASCII"
         THEN [kind |-> "line", name |-> e.name, unit |-> e.unit,
               text |-> FmtPrecS(buf, blen)]
         ELSE [kind |-> "line", name |-> e.name, unit |-> e.unit,
               text |-> HexGroups(SubSeq(buf, 1, blen))]

\* variant: the payload length is taken from the first byte of the second
\* response, as far as that response reaches
RenderBlock_second_length(e, resp_data, blen) ==
    LET l2 == IF resp_data[1] < Len(resp_data) THEN resp_data[1]
              ELSE Len(resp_data) - 1
    IN
    IF e.type = "BLOCK_BITS"
    THEN bq_print_bits_from_buffer(e, SubSeq(resp_data, 2, 1 + l2), l2).out
    ELSE LET buf == SanitizeBlock(resp_data, l2) IN
         IF e.type = "BLOCK_ASCII"
         THEN [kind |-> "line", name |-> e.name, unit |-> e.unit,
               text |-> FmtPrecS(SubSeq(buf, 2, Len(buf)), l2)]
         ELSE [kind |-> "line", name |-> e.name, unit |-> e.unit,
               text |-> HexGroups(SubSeq(buf, 2, 1 + l2))]

\* what bq_generic_dump prints for a block entry after both transactions
RenderBlock(e, resp_data, blen) ==
    IF e.type = "BLOCK_BITS"
    THEN bq_print_bits_from_buffer(e, SubSeq(resp_data, 2, 1 + blen), blen).out
    ELSE LET buf == SanitizeBlock(resp_data, blen) IN
         IF e.type = "BLOCK_ASCII"
         THEN [kind |-> "line", name |-> e.name, unit |-> e.unit,
               text |-> FmtPrecS(SubSeq(buf, 2, Len(buf)), blen)]
         ELSE [kind |-> "line", name |-> e.name, unit |-> e.unit,
               text |-> HexGroups(SubSeq(buf, 2, 1 + blen))]

\* variant: the offset is added before scaling
Affine_offset_first(e, raw) == FMul(FAdd(I2F(raw), e.offset), e.scaling)

\* float val = raw * entry->scaling + entry->offset
Affine(e, raw) == FAdd(FMul(I2F(raw), e.scaling), e.offset)

\* what bq_generic_dump prints for a word entry
RenderWord(e, resp) ==
    LET raw == le16(resp[1], resp[2]) IN
    [kind |-> "line", name |-> e.name, unit |-> e.unit,
     text |-> IF e.type = "WORD_HEX" THEN FmtHex8(raw)
              ELSE IF e.type = "WORD_FLOAT" THEN FmtFixed3(Affine(e, raw))
              ELSE FmtInt(F2Int(Affine(e, raw)))]

\* resp[idx] of the zero-initialised 256-byte buffer of the lifetime decoder
\* variant: the buffer is not cleared, the bytes past the transfer are
\* whatever the stack held
RespAt_uninitialised(resp, idx) == IF idx < Len(resp) THEN resp[idx + 1] ELSE 170

\* uint8_t resp[256] = {0}, filled by the transfer from index 0 on
RespAt(resp, idx) == IF idx < Len(resp) THEN resp[idx + 1] ELSE 0

\* the indices of resp that block 1 is decoded from: offset runs from 1
\* in steps of two over twelve words, then one byte
LifetimeFixedReads == UNION { {2 * w - 1, 2 * w} : w \in 1..12 } \cup {25}

RenderLifetime(block, resp, blen) ==
    IF block = 1
    THEN [kind |-> "lifetime1",
          words |-> [w \in 1..12 |->
              FmtFixed3(FDiv1000(le16(RespAt(resp, 2 * w - 1), RespAt(resp, 2 * w))))],
          power |-> FmtInt(RespAt(resp, 25))]
    ELSE [kind |-> "lifetimeraw",
          bytes |-> [i \in 1..blen |-> FmtHex2(RespAt(resp, i))]]

(***************************************************************************)
(* What the device may answer                                               *)
(***************************************************************************)
Byte == 0..255
ByteVals == {0, 31, 32, 65, 126, 127, 128, 255}
ShowBytes == {65, 127}
HiVals == ByteVals \cup {1, 10}
WordPairs == Byte \X HiVals
Errs == {0, I2C_FAIL}

SeqsOf(S, l) == [1..l -> S]

\* payloads of l bytes: every byte value for a one-byte payload, boundary
\* values for longer ones, two fill patterns for the longest block
Payloads(l) ==
    IF l = 1 THEN SeqsOf(Byte, 1)
    ELSE IF l > MaxLen THEN { [i \in 1..l |-> 65], [i \in 1..l |-> (7 * i) % 256] }
    ELSE SeqsOf(ByteVals, l)

\* answers to a read of rlen bytes.  For the second phase of a block read
\* the first byte repeats the length or differs from it by one either way.
\* Length 24 ends between the last word and the power byte of lifetime
\* block 1.
LenAnswers == { << l >> : l \in 0..MaxLen \cup {24, 255} }
BlockAnswers(blen) ==
    { << b0 >> \o p : b0 \in {blen, (blen + 1) % 256, (blen + 255) % 256},
                     p \in Payloads(blen) }
WordAnswers == { << w[1], w[2] >> : w \in WordPairs }

\* the smaller answer sets used while bq_show walks several entries
ShowLenAnswers == { << 0 >>, << 1 >> }
ShowBlockAnswers(blen) == { << blen >> \o p : p \in SeqsOf(ShowBytes, blen) }
ShowWordAnswers == { << 44, 1 >>, << 255, 255 >> }

\* COUNT(bq_commands)
COUNT == Len(bq_commands)

\* one modelled bq_show pass walks MaxEntries consecutive table entries,
\* pos = first .. first + MaxEntries - 1
Starts == 0..(COUNT - MaxEntries)

DirectEntries ==
    { bq_commands[i] : i \in 1..Len(bq_commands) }
        \cup {NULL, ByteEntry, HexEntry, ZeroEntry, IntEntry, OrderEntry}

LifetimeArgs == -1..5

Buffers == UNION { SeqsOf({0, 27, 255}, l) : l \in 0..MaxBufLen }
LsbVals == 0..(8 * MaxBufLen + 1) \cup {65535}
Widths == 0..32

(***************************************************************************)
(* The transport: one i2c_write_read(addr, wdata, 1, rdata, rlen) call      *)
(***************************************************************************)
\* variant: only positive codes count as failures
Failed_positive_only(err) == err > 0

\* variant: the transport's failure value -1 is not taken as an error and
\* the decode carries on with its next transaction
Failed_ignore_transport_failure(err) == err # 0 /\ err # I2C_FAIL

\* if (err)
Failed(err) == err # 0

\* variant: the command byte is not written, the transaction only reads
Txn_read_only(addr, cmd, rlen, err, rdata) ==
    [addr |-> addr, wdata |-> << >>, rlen |-> rlen, err |-> err,
     rdata |-> IF err = 0 THEN rdata ELSE << >>]

Txn(addr, cmd, rlen, err, rdata) ==
    [addr |-> addr, wdata |-> << cmd >>, rlen |-> rlen, err |-> err,
     rdata |-> IF err = 0 THEN rdata ELSE << >>]

\* variant: a decode that prints nothing leaves the previous decode's text
Result_stale_output(e, r, out, logged) ==
    [reg |-> e.reg, name |-> e.name, ret |-> r,
     out |-> IF out = NoOutput /\ results # << >>
             THEN results[Len(results)].out ELSE out,
     logged |-> logged]

Result(e, r, out, logged) ==
    [reg |-> e.reg, name |-> e.name, ret |-> r, out |-> out, logged |-> logged]

(***************************************************************************)
(* Initial state: console idle, table constructed                           *)
(***************************************************************************)
IdleDecode ==
    /\ pc = "idle"
    /\ op = "none"
    /\ first = 0
    /\ pos = 0
    /\ entry = NULL
    /\ n = 0
    /\ len = 0
    /\ bus = << >>
    /\ results = << >>
    /\ ret = 0

IdleExtract ==
    /\ xdata = << >>
    /\ xlsb = 0
    /\ xwidth = 0
    /\ xvalue = NoValue

IdleTotal ==
    /\ xbuild = "mod32"
    /\ xsteps = NoSteps
    /\ xagain = NoValue

\* the two tasks that hand command lines to the console
Tasks == {"uart_repl", "telnet"}

IdleRun ==
    [pc |-> "idle", op |-> "none", pos |-> 0, last |-> 0, n |-> 0, len |-> 0, id |-> 0]

IdleConc ==
    /\ run = [t \in Tasks |-> IdleRun]
    /\ wire = << >>
    /\ decodes = 0

\* the command line as parsed by arg_parse: the address, the strtol result
\* of every -w string (value and whether characters were left over), the
\* -r value, and the two optional --cyclic values with their counts
NoArgs ==
    [address |-> 0, wdata |-> << >>, rbytes |-> 0,
     has_ms |-> FALSE, ms |-> 0, has_count |-> FALSE, count |-> 0]

\* the buffers do_i2c_rw_cmd takes from the heap: the write bytes, the read
\* bytes, the text of the write bytes for the log, and in every successful
\* cycle the text of the read bytes (the inner hex_buf)
RwBuffers == {"w_data_buf", "r_data_buf", "hex_buf", "read_hex_buf"}
NoHeap == [b \in RwBuffers |-> 0]

\* mallocs / frees count, per buffer, the successful malloc calls and the
\* free calls of the running invocation
IdleArgs ==
    [pc |-> "idle", args |-> NoArgs, addr |-> 0, w_data_buf |-> << >>,
     num_bytes_to_read |-> 0, cyclic_ms |-> 0, cyclic_count |-> 0,
     cycle |-> 0, overall_ret |-> 0, ret |-> 0,
     mallocs |-> NoHeap, frees |-> NoHeap]

IdleRW ==
    /\ rw = IdleArgs
    /\ rwlog = << >>

\* nothing has been decoded yet
NoMemo ==
    [reg |-> -1, name |-> "", before |-> 0, txns |-> << >>,
     ret |-> 0, out |-> NoOutput, logged |-> FALSE]

(***************************************************************************)
(* Telnet console: constants and the state before any connection           *)
(***************************************************************************)
TELNET_IAC == 255
TELNET_DO == 253
TELNET_SB == 250
TELNET_SE == 240
TELNET_OPT_ECHO == 1
TELNET_OPT_TTYPE == 24
TELNET_RX_BUFFER_SIZE == 128

CH_CR == 13
CH_LF == 10
CH_BS == 8
CH_DEL == 127

\* no byte has been received yet
NoRx == [b |-> -1, iac |-> FALSE]

\* the telnet server task.  pc is "none" while it waits in accept, else the
\* position of handle_telnet_client_connection; sock is the handler's
\* parameter; open is the set of descriptors the socket layer has open;
\* pending holds the bytes of a telnet command sequence the client has
\* begun and not finished sending, nsb counts its subnegotiations; rx / tx
\* are the byte received last and what the handler sent back for it; why
\* is the reason the loop was left
IdleTelnet ==
    [pc |-> "none", sock |-> -1, s_telnet_client_sock |-> -1,
     stdout |-> "original",
     line_buffer |-> [i \in 0..(TELNET_RX_BUFFER_SIZE - 1) |-> 0], line_len |-> 0,
     open |-> {}, nshutdown |-> 0, nclose |-> 0, why |-> "none",
     pending |-> << >>, nsb |-> 0, rx |-> NoRx, tx |-> "none"]

\* another task inside telnet_vprintf_redirect: pc is "idle" or "sending",
\* left the characters still to send; of the line emitted last, vprintf
\* says whether the original handler was called, connected whether a
\* client was connected at the check, sent how many characters went to
\* the client; bad whether send was ever called on -1 or on a descriptor
\* that is not open; lines counts the lines emitted
IdleLog ==
    [pc |-> "idle", left |-> 0, vprintf |-> FALSE, connected |-> FALSE,
     sent |-> 0, bad |-> FALSE, lines |-> 0]

\* Wi-Fi station: link is "off" before wifi_start, then "connecting" after
\* esp_wifi_connect, "connected" once an address was obtained, "wps" while
\* WPS runs, "down" when nothing is in progress; connects counts the
\* addresses obtained; reaction is what the handler did on the last
\* WIFI_EVENT_STA_DISCONNECTED, was_connected whether that event ended an
\* established connection
IdleWifi ==
    [link |-> "off", s_tried_nvs_creds |-> FALSE, s_retry_num |-> 0,
     ap_idx |-> 1, s_ap_creds_num |-> 0, connects |-> 0,
     reaction |-> "none", was_connected |-> FALSE]

IdleOther ==
    /\ memo = NoMemo
    /\ tn = IdleTelnet
    /\ lg = IdleLog
    /\ wf = IdleWifi

Init ==
    /\ IdleDecode
    /\ IdleExtract
    /\ IdleTotal
    /\ IdleConc
    /\ IdleRW
    /\ IdleOther

(***************************************************************************)
(* bq_generic_dump returning r to its caller.  cmd_bq_dump ignores the      *)
(* value and goes on with the next table entry; the direct caller gets it.  *)
(***************************************************************************)
\* variant: cmd_bq_dump stops at the first entry that fails
Return_abort_on_error(r, out, logged) ==
    LET more == op = "bq_show" /\ pos + 1 < first + MaxEntries /\ r = 0 IN
    /\ results' = Append(results, Result(entry, r, out, logged))
    /\ len' = 0
    /\ pos' = IF op = "bq_show" THEN pos + 1 ELSE pos
    /\ entry' = IF more THEN bq_commands[pos + 2] ELSE entry
    /\ pc' = IF more THEN "call" ELSE "done"
    /\ ret' = IF more THEN ret ELSE r

Return(r, out, logged) ==
    /\ results' = Append(results, Result(entry, r, out, logged))
    /\ len' = 0
    /\ IF op = "bq_show"
       THEN /\ pos' = pos + 1
            /\ IF pos + 1 < first + MaxEntries
               THEN /\ entry' = bq_commands[pos + 2]
                    /\ pc' = "call"
                    /\ ret' = ret
               ELSE /\ entry' = entry
                    /\ pc' = "done"
                    /\ ret' = 0
       ELSE /\ pos' = pos
            /\ entry' = entry
            /\ pc' = "done"
            /\ ret' = r

\* cmd_bq_dump, the pass starting at one of the given table indices
DumpFrom(starts) ==
    /\ pc = "idle"
    /\ \E start \in starts :
        /\ first' = start
        /\ pos' = start
        /\ entry' = bq_commands[start + 1]
    /\ op' = "bq_show"
    /\ pc' = "call"
    /\ UNCHANGED << n, len, bus, results, ret >>

\* console command bq_show
cmd_bq_dump ==
    /\ DumpFrom(Starts)
    /\ UNCHANGED harnessVars

\* a targeted query: bq_generic_dump(e) called on its own
decode_one ==
    /\ pc = "idle"
    /\ \E e \in DirectEntries :
        /\ op' = "decode_one"
        /\ entry' = e
        /\ pc' = "call"
    /\ UNCHANGED << first, pos, n, len, bus, results, ret, harnessVars >>

\* bq_generic_dump: null descriptor, or a kind the switch does not handle
GenericDumpNoIO ==
    /\ pc = "call"
    /\ entry.type \notin (BlockTypes \cup WordTypes)
    /\ IF entry.type = "NULL"
       THEN Return(ESP_ERR_INVALID_ARG, NoOutput, FALSE)
       ELSE Return(0, NoOutput, FALSE)
    /\ UNCHANGED << op, first, n, bus, harnessVars >>

\* bq_generic_dump, block kinds: the length transaction
BlockPhase1 ==
    /\ pc = "call"
    /\ entry.type \in BlockTypes
    /\ \E err \in Errs :
       \E rd \in (IF op = "bq_show" THEN ShowLenAnswers ELSE LenAnswers) :
        /\ bus' = Append(bus, Txn(BQ30Z555_I2C_ADDR, entry.reg, 1, err, rd))
        /\ IF Failed(err)
           THEN Return(err, NoOutput, TRUE)
           ELSE /\ len' = rd[1]
                /\ pc' = "phase2"
                /\ UNCHANGED << pos, entry, results, ret >>
    /\ UNCHANGED << op, first, n, harnessVars >>

\* bq_generic_dump, block kinds: the payload transaction and the rendering
BlockPhase2 ==
    /\ pc = "phase2"
    /\ \E err \in Errs :
       \E rd \in (IF op = "bq_show" THEN ShowBlockAnswers(len) ELSE BlockAnswers(len)) :
        /\ bus' = Append(bus, Txn(BQ30Z555_I2C_ADDR, entry.reg, ReadLen(len), err, rd))
        /\ IF Failed(err)
           THEN Return(err, NoOutput, TRUE)
           ELSE Return(0, RenderBlock(entry, rd, len), FALSE)
    /\ UNCHANGED << op, first, n, harnessVars >>

\* bq_generic_dump, word kinds: the 2-byte transaction and the rendering
WordRead ==
    /\ pc = "call"
    /\ entry.type \in WordTypes
    /\ \E err \in Errs :
       \E rd \in (IF op = "bq_show" THEN ShowWordAnswers ELSE WordAnswers) :
        /\ bus' = Append(bus, Txn(BQ30Z555_I2C_ADDR, entry.reg, 2, err, rd))
        /\ IF Failed(err)
           THEN Return(err, NoOutput, TRUE)
           ELSE Return(0, RenderWord(entry, rd), FALSE)
    /\ UNCHANGED << op, first, n, harnessVars >>

\* console command bq_lifetime [n]: block = atoi(argv[1]), default 1
cmd_bq_lifetime ==
    /\ pc = "idle"
    /\ \E block \in LifetimeArgs :
        /\ op' = "bq_lifetime"
        /\ n' = block
        /\ pc' = "lt_call"
    /\ UNCHANGED << first, pos, entry, len, bus, results, ret, harnessVars >>

\* command byte of lifetime block k
LifetimeCmd(k) == (BQ30Z555_CMD_LIFETIME_DATA1 + (k - 1)) % 256

LifetimeEntry(k) == [reg |-> LifetimeCmd(k), name |-> "LifetimeData"]

LifetimeReturn(r, out, logged) ==
    /\ results' = Append(results, Result(LifetimeEntry(n), r, out, logged))
    /\ ret' = r
    /\ len' = 0
    /\ pc' = "done"

\* variant: index 0 is let through
OutOfRange_from_zero(k) == k < 0 \/ k > 3

\* if (n < 1 || n > 3)
OutOfRange(k) == k < 1 \/ k > 3

\* bq_print_lifetime_block_decoded: the index check
LifetimeInvalid ==
    /\ pc = "lt_call"
    /\ OutOfRange(n)
    /\ LifetimeReturn(ESP_ERR_INVALID_ARG, NoOutput, TRUE)
    /\ UNCHANGED << op, first, pos, entry, n, bus, harnessVars >>

\* bq_print_lifetime_block_decoded: the length transaction
LifetimePhase1 ==
    /\ pc = "lt_call"
    /\ ~OutOfRange(n)
    /\ \E err \in Errs : \E rd \in LenAnswers :
        /\ bus' = Append(bus, Txn(BQ30Z555_I2C_ADDR, LifetimeCmd(n), 1, err, rd))
        /\ IF Failed(err)
           THEN LifetimeReturn(err, NoOutput, TRUE)
           ELSE /\ len' = rd[1]
                /\ pc' = "lt_phase2"
                /\ UNCHANGED << results, ret >>
    /\ UNCHANGED << op, first, pos, entry, n, harnessVars >>

\* bq_print_lifetime_block_decoded: the payload transaction and the printout
LifetimePhase2 ==
    /\ pc = "lt_phase2"
    /\ \E err \in Errs : \E rd \in BlockAnswers(len) :
        /\ bus' = Append(bus, Txn(BQ30Z555_I2C_ADDR, LifetimeCmd(n), ReadLen(len), err, rd))
        /\ IF Failed(err)
           THEN LifetimeReturn(err, NoOutput, TRUE)
           ELSE LifetimeReturn(0, RenderLifetime(n, rd, len), FALSE)
    /\ UNCHANGED << op, first, pos, entry, n, harnessVars >>

\* the command handler has returned; the console reads the next line
NextLine ==
    /\ pc = "done"
    /\ pc' = "idle"
    /\ op' = "none"
    /\ first' = 0
    /\ pos' = 0
    /\ entry' = NULL
    /\ n' = 0
    /\ len' = 0
    /\ bus' = << >>
    /\ results' = << >>
    /\ ret' = 0

Prompt ==
    /\ NextLine
    /\ UNCHANGED harnessVars

Next ==
    \/ cmd_bq_dump
    \/ decode_one
    \/ GenericDumpNoIO
    \/ BlockPhase1
    \/ BlockPhase2
    \/ WordRead
    \/ cmd_bq_lifetime
    \/ LifetimeInvalid
    \/ LifetimePhase1
    \/ LifetimePhase2
    \/ Prompt

Spec == Init /\ [][Next]_vars

(***************************************************************************)
(* The console runs commands one after another for as long as the device   *)
(* is up.  To compare a decode with an earlier one, one finished decode is  *)
(* remembered across prompts: its descriptor, the responses its own         *)
(* transactions received, and what it returned and printed.                 *)
(***************************************************************************)
\* table indices at which the repeated bq_show passes start; the windows
\* overlap, so an entry is decoded after different predecessors
AgainStarts == {0, 1, COUNT - MaxEntries}

\* the transactions one decode issued: those carrying its command byte
Responses(c) == SelectSeq(bus, LAMBDA t : t.wdata = << c >>)

\* decodes that are remembered: those with short responses
Memorable(txns) ==
    \A i \in 1..Len(txns) :
        /\ Len(txns[i].rdata) <= 2
        /\ (op # "bq_show" /\ Len(txns[i].rdata) = 2) => txns[i].rdata[2] \in ShowBytes

cmd_bq_dump_again ==
    /\ DumpFrom(AgainStarts)
    /\ UNCHANGED harnessVars

\* the prompt after a command, one of its decodes being remembered
PromptRemember ==
    /\ NextLine
    /\ UNCHANGED << tn, lg, wf >>
    /\ \E j \in 1..Len(results) :
        /\ Memorable(Responses(results[j].reg))
        /\ memo' = [reg |-> results[j].reg, name |-> results[j].name, before |-> j - 1,
                    txns |-> Responses(results[j].reg), ret |-> results[j].ret,
                    out |-> results[j].out, logged |-> results[j].logged]
    /\ UNCHANGED << extractVars, totalVars, consoleVars >>

NextAgain ==
    \/ cmd_bq_dump_again
    \/ BlockPhase1
    \/ BlockPhase2
    \/ WordRead
    \/ cmd_bq_lifetime
    \/ LifetimeInvalid
    \/ LifetimePhase1
    \/ LifetimePhase2
    \/ Prompt
    \/ PromptRemember

SpecAgain == Init /\ [][NextAgain]_vars

(***************************************************************************)
(* Harness for the pure bit extractor: arguments drawn at the start, one    *)
(* call                                                                     *)
(***************************************************************************)
InitExtract ==
    /\ IdleDecode
    /\ xdata \in Buffers
    /\ xlsb \in LsbVals
    /\ xwidth \in Widths
    /\ xvalue = NoValue
    /\ IdleTotal
    /\ IdleConc
    /\ IdleRW
    /\ IdleOther

ExtractCall ==
    /\ xvalue = NoValue
    /\ xvalue' = bq_extract_bits(xdata, Len(xdata), xlsb, xwidth)
    /\ UNCHANGED << decodeVars, xdata, xlsb, xwidth, totalVars, consoleVars, otherVars >>

NextExtract == ExtractCall

SpecExtract == InitExtract /\ [][NextExtract]_vars

(***************************************************************************)
(* Harness for the bit extractor over the whole range of its parameter      *)
(* types: any uint8_t width, lsb_index up to the end of uint16_t, two calls *)
(* with the same arguments on one build                                     *)
(***************************************************************************)
TotalBuffers == UNION { SeqsOf({0, 27, 255}, l) : l \in 0..MaxTotalLen }
TotalLsbVals == 0..(8 * MaxTotalLen + 1) \cup {65528, 65535}
TotalWidths == 0..40 \cup {255}

InitTotal ==
    /\ IdleDecode
    /\ xdata \in TotalBuffers
    /\ xlsb \in TotalLsbVals
    /\ xwidth \in TotalWidths
    /\ xvalue = NoValue
    /\ xbuild \in ShiftOutcomes
    /\ xsteps = NoSteps
    /\ xagain = NoValue
    /\ IdleConc
    /\ IdleRW
    /\ IdleOther

TotalFirstCall ==
    /\ xsteps = NoSteps
    /\ xsteps' = extract_steps(xdata, Len(xdata), xlsb, xwidth, 0,
                               [NoSteps EXCEPT !.value = U32(0, 0)], xbuild)
    /\ UNCHANGED << decodeVars, extractVars, xbuild, xagain, consoleVars, otherVars >>

TotalSecondCall ==
    /\ xsteps # NoSteps
    /\ xagain = NoValue
    /\ xagain' = extract_steps(xdata, Len(xdata), xlsb, xwidth, 0,
                               [NoSteps EXCEPT !.value = U32(0, 0)], xbuild).value
    /\ UNCHANGED << decodeVars, extractVars, xbuild, xsteps, consoleVars, otherVars >>

NextTotal ==
    \/ TotalFirstCall
    \/ TotalSecondCall

SpecTotal == InitTotal /\ [][NextTotal]_vars

(***************************************************************************)
(* The running program: app_main starts the console REPL task (cmd_start)   *)
(* and the telnet server task (telnet_start).  Each of them runs the        *)
(* registered command handlers on its own stack as command lines arrive;    *)
(* neither the handlers nor i2c_write_read take a lock around a decode.     *)
(* One i2c_write_read is one step: the bus driver carries out one command   *)
(* link at a time.                                                          *)
(***************************************************************************)
\* a modelled bq_show pass of a task walks ConcEntries consecutive table
\* entries from one of ConcStarts; what the device answers is the length
\* byte and a fixed filling
ConcStarts == {0}
ConcEntries == 2
ConcWord == << 44, 1 >>
ConcBlock(blen) == << blen >> \o [i \in 1..blen |-> 65]

\* the table entry a task's bq_show pass is at
RunEntry(r) == bq_commands[r.pos + 1]

WireTxn(t, phase, txn) ==
    [task |-> t, decode |-> run[t].id, phase |-> phase, txn |-> txn]

\* bq_generic_dump has returned to cmd_bq_dump: next entry or end of command
RunNext(r) ==
    IF r.pos < r.last
    THEN [r EXCEPT !.pos = r.pos + 1, !.pc = "call", !.len = 0]
    ELSE IdleRun

\* a command line "bq_show" reaches task t
TaskShow(t) ==
    /\ run[t].pc = "idle"
    /\ decodes < MaxDecodes
    /\ \E start \in ConcStarts :
        run' = [run EXCEPT ![t] =
                   [pc |-> "call", op |-> "bq_show", pos |-> start,
                    last |-> start + ConcEntries - 1, n |-> 0, len |-> 0,
                    id |-> decodes + 1]]
    /\ decodes' = decodes + 1
    /\ UNCHANGED << decodeVars, extractVars, totalVars, otherVars, wire, rwVars >>

\* a command line "bq_lifetime [n]" reaches task t
TaskLifetime(t) ==
    /\ run[t].pc = "idle"
    /\ decodes < MaxDecodes
    /\ \E block \in 0..3 :
        run' = [run EXCEPT ![t] =
                   [pc |-> "lt_call", op |-> "bq_lifetime", pos |-> 0,
                    last |-> 0, n |-> block, len |-> 0, id |-> decodes + 1]]
    /\ decodes' = decodes + 1
    /\ UNCHANGED << decodeVars, extractVars, totalVars, otherVars, wire, rwVars >>

TaskWordRead(t) ==
    /\ run[t].pc = "call"
    /\ RunEntry(run[t]).type \in WordTypes
    /\ \E err \in Errs :
        wire' = Append(wire, WireTxn(t, "word",
                    Txn(BQ30Z555_I2C_ADDR, RunEntry(run[t]).reg, 2, err, ConcWord)))
    /\ run' = [run EXCEPT ![t] = RunNext(run[t])]
    /\ UNCHANGED << decodeVars, extractVars, totalVars, otherVars, decodes, rwVars >>

TaskBlockPhase1(t) ==
    /\ run[t].pc = "call"
    /\ RunEntry(run[t]).type \in BlockTypes
    /\ \E err \in Errs : \E rd \in ShowLenAnswers :
        /\ wire' = Append(wire, WireTxn(t, "length",
                       Txn(BQ30Z555_I2C_ADDR, RunEntry(run[t]).reg, 1, err, rd)))
        /\ run' = [run EXCEPT ![t] =
                      IF Failed(err) THEN RunNext(run[t])
                      ELSE [run[t] EXCEPT !.pc = "phase2", !.len = rd[1]]]
    /\ UNCHANGED << decodeVars, extractVars, totalVars, otherVars, decodes, rwVars >>

TaskBlockPhase2(t) ==
    /\ run[t].pc = "phase2"
    /\ \E err \in Errs :
        wire' = Append(wire, WireTxn(t, "payload",
                    Txn(BQ30Z555_I2C_ADDR, RunEntry(run[t]).reg,
                        ReadLen(run[t].len), err, ConcBlock(run[t].len))))
    /\ run' = [run EXCEPT ![t] = RunNext(run[t])]
    /\ UNCHANGED << decodeVars, extractVars, totalVars, otherVars, decodes, rwVars >>

TaskLifetimeInvalid(t) ==
    /\ run[t].pc = "lt_call"
    /\ OutOfRange(run[t].n)
    /\ run' = [run EXCEPT ![t] = IdleRun]
    /\ UNCHANGED << decodeVars, extractVars, totalVars, otherVars, wire, decodes, rwVars >>

TaskLifetimePhase1(t) ==
    /\ run[t].pc = "lt_call"
    /\ ~OutOfRange(run[t].n)
    /\ \E err \in Errs : \E rd \in ShowLenAnswers :
        /\ wire' = Append(wire, WireTxn(t, "length",
                       Txn(BQ30Z555_I2C_ADDR, LifetimeCmd(run[t].n), 1, err, rd)))
        /\ run' = [run EXCEPT ![t] =
                      IF Failed(err) THEN IdleRun
                      ELSE [run[t] EXCEPT !.pc = "lt_phase2", !.len = rd[1]]]
    /\ UNCHANGED << decodeVars, extractVars, totalVars, otherVars, decodes, rwVars >>

TaskLifetimePhase2(t) ==
    /\ run[t].pc = "lt_phase2"
    /\ \E err \in Errs :
        wire' = Append(wire, WireTxn(t, "payload",
                    Txn(BQ30Z555_I2C_ADDR, LifetimeCmd(run[t].n),
                        ReadLen(run[t].len), err, ConcBlock(run[t].len))))
    /\ run' = [run EXCEPT ![t] = IdleRun]
    /\ UNCHANGED << decodeVars, extractVars, totalVars, otherVars, decodes, rwVars >>

NextConc ==
    \/ \E t \in Tasks : TaskShow(t)
    \/ \E t \in Tasks : TaskLifetime(t)
    \/ \E t \in Tasks : TaskWordRead(t)
    \/ \E t \in Tasks : TaskBlockPhase1(t)
    \/ \E t \in Tasks : TaskBlockPhase2(t)
    \/ \E t \in Tasks : TaskLifetimeInvalid(t)
    \/ \E t \in Tasks : TaskLifetimePhase1(t)
    \/ \E t \in Tasks : TaskLifetimePhase2(t)

SpecConc == Init /\ [][NextConc]_vars

(***************************************************************************)
(* The console command i2c_rw <addr> -w <byte>... -r <n> [--cyclic <ms>     *)
(* <count>]                                                                 *)
(***************************************************************************)
RwAddresses == {11, 267}
RwByteArgs ==
    { [v |-> 9, rest |-> FALSE], [v |-> 255, rest |-> FALSE],
      [v |-> 256, rest |-> FALSE], [v |-> -1, rest |-> FALSE],
      [v |-> 9, rest |-> TRUE] }
RwWriteArgs == UNION { SeqsOf(RwByteArgs, l) : l \in 0..2 }
RwReadArgs == {0, 1, 2, 256, 257}
RwMsArgs == {-1, 0, 10}
RwCountArgs == -1..MaxCycles

RwArgs ==
    { [address |-> a, wdata |-> w, rbytes |-> r,
       has_ms |-> hm, ms |-> (IF hm THEN m ELSE 0),
       has_count |-> hc, count |-> (IF hc THEN c ELSE 0)] :
      a \in RwAddresses, w \in RwWriteArgs, r \in RwReadArgs,
      hm \in BOOLEAN, m \in RwMsArgs, hc \in BOOLEAN, c \in RwCountArgs }

\* if (*end || v < 0 || v > 0xFF)
BadByte(b) == b.rest \/ b.v < 0 \/ b.v > 255

\* the checks of do_i2c_rw_cmd that end it with return 1 before the loop
RwRejected(a) ==
    \/ Len(a.wdata) = 0
    \/ \E i \in 1..Len(a.wdata) : BadByte(a.wdata[i])
    \/ (a.has_ms /\ a.has_count /\ a.ms < 0)
    \/ (a.has_ms /\ a.has_count /\ a.count <= 0)
    \/ (~(a.has_ms /\ a.has_count) /\ (a.has_ms \/ a.has_count))
    \/ a.rbytes <= 0
    \/ a.rbytes > 256

\* variant: the delay also follows the last cycle
NeedsDelay_after_last(cycle, cyclic_count) == cycle < cyclic_count

\* if (cycle < cyclic_count - 1)
NeedsDelay(cycle, cyclic_count) == cycle < cyclic_count - 1

\* free(w_data_buf); free(r_data_buf); free(hex_buf);
RwFreeAll(frees) ==
    [b \in RwBuffers |->
        IF b \in {"w_data_buf", "r_data_buf", "hex_buf"} THEN frees[b] + 1 ELSE frees[b]]

\* ++cycle and the loop test cycle < cyclic_count; after the loop the three
\* buffers are released and overall_ret is returned
RwNextCycle(r, overall) ==
    IF r.cycle + 1 < r.cyclic_count
    THEN [r EXCEPT !.pc = "loop", !.cycle = r.cycle + 1, !.overall_ret = overall]
    ELSE [r EXCEPT !.pc = "done", !.cycle = r.cycle + 1, !.overall_ret = overall,
                   !.ret = overall, !.frees = RwFreeAll(r.frees)]

\* the buffers allocated when a check ends the command with return 1:
\* none when no -w byte was given (the mandatory-argument check comes
\* first), else w_data_buf, which every later check finds allocated
RwHeapAtReject(a) ==
    IF Len(a.wdata) = 0 THEN NoHeap ELSE [NoHeap EXCEPT !["w_data_buf"] = 1]

\* the buffers allocated when the loop is entered
RwHeapAtLoop ==
    [b \in RwBuffers |-> IF b = "read_hex_buf" THEN 0 ELSE 1]

\* argument parsing and checking, up to the first cycle
do_i2c_rw_cmd ==
    /\ rw.pc = "idle"
    /\ \E a \in RwArgs :
        rw' = IF RwRejected(a)
              THEN [IdleArgs EXCEPT !.pc = "done", !.args = a, !.ret = 1,
                                    !.mallocs = RwHeapAtReject(a)]
              ELSE [pc |-> "loop", args |-> a,
                    mallocs |-> RwHeapAtLoop, frees |-> NoHeap,
                    addr |-> a.address % 256,
                    w_data_buf |-> [i \in 1..Len(a.wdata) |-> a.wdata[i].v],
                    num_bytes_to_read |-> a.rbytes,
                    cyclic_ms |-> IF a.has_ms /\ a.has_count THEN a.ms ELSE 0,
                    cyclic_count |-> IF a.has_ms /\ a.has_count THEN a.count ELSE 1,
                    cycle |-> 0, overall_ret |-> 0, ret |-> 0]
    /\ UNCHANGED << decodeVars, extractVars, totalVars, otherVars, concVars, rwlog >>

\* one cycle: i2c_write_read and the bookkeeping of its result
RwTransfer ==
    /\ rw.pc = "loop"
    /\ \E err \in Errs :
        LET overall == IF err = 0 THEN rw.overall_ret ELSE 1 IN
        /\ rwlog' = Append(rwlog,
               [kind |-> "txn", addr |-> rw.addr, wdata |-> rw.w_data_buf,
                rlen |-> rw.num_bytes_to_read, err |-> err, ms |-> 0])
        /\ rw' = LET r == IF err = 0
                          THEN [rw EXCEPT !.mallocs["read_hex_buf"] = @ + 1,
                                          !.frees["read_hex_buf"] = @ + 1]
                          ELSE rw
                 IN  IF NeedsDelay(rw.cycle, rw.cyclic_count)
                     THEN [r EXCEPT !.pc = "delay", !.overall_ret = overall]
                     ELSE RwNextCycle(r, overall)
    /\ UNCHANGED << decodeVars, extractVars, totalVars, otherVars, concVars >>

\* vTaskDelay(pdMS_TO_TICKS(cyclic_ms))
RwDelay ==
    /\ rw.pc = "delay"
    /\ rwlog' = Append(rwlog,
           [kind |-> "delay", addr |-> 0, wdata |-> << >>, rlen |-> 0,
            err |-> 0, ms |-> rw.cyclic_ms])
    /\ rw' = RwNextCycle(rw, rw.overall_ret)
    /\ UNCHANGED << decodeVars, extractVars, totalVars, otherVars, concVars >>

\* the command has returned; the console reads the next line
RwPrompt ==
    /\ rw.pc = "done"
    /\ rw' = IdleArgs
    /\ rwlog' = << >>
    /\ UNCHANGED << decodeVars, extractVars, totalVars, otherVars, concVars >>

NextRW ==
    \/ do_i2c_rw_cmd
    \/ RwTransfer
    \/ RwDelay
    \/ RwPrompt

SpecRW == Init /\ [][NextRW]_vars

(***************************************************************************)
(* i2c_rw when the heap can be exhausted: malloc of r_data_buf is the one   *)
(* allocation whose result the code tests.                                  *)
(***************************************************************************)
\* if (!r_data_buf) { free(w_data_buf); return 1; }
RwNoMemory ==
    /\ rw.pc = "idle"
    /\ \E a \in RwArgs :
        /\ ~RwRejected(a)
        /\ rw' = [IdleArgs EXCEPT !.pc = "done", !.args = a, !.ret = 1,
                                  !.mallocs = [NoHeap EXCEPT !["w_data_buf"] = 1],
                                  !.frees = [NoHeap EXCEPT !["w_data_buf"] = 1]]
    /\ UNCHANGED << decodeVars, extractVars, totalVars, otherVars, concVars, rwlog >>

NextHeap ==
    \/ do_i2c_rw_cmd
    \/ RwNoMemory
    \/ RwTransfer
    \/ RwDelay
    \/ RwPrompt

SpecHeap == Init /\ [][NextHeap]_vars

(***************************************************************************)
(* Telnet console.  telnet_server_main_task accepts one connection and      *)
(* runs handle_telnet_client_connection on it; the handler is modelled from *)
(* one blocking call to the next.  Every send may fail.                     *)
(***************************************************************************)
\* descriptors the socket layer hands out
Fds == {54, 55}

\* characters of one log line
LogLen == 2

\* what the client types: "exit", a line longer than the buffer, "bq"
Exit == << 101, 120, 105, 116 >>
LongLine == [i \in 1..TELNET_RX_BUFFER_SIZE |-> CH_A]
Command == << 98, 113 >>
Scripts == {Exit, LongLine, Command}
ShortScripts == {Exit, Command}

Alphabet(scripts) == UNION { { s[i] : i \in 1..Len(s) } : s \in scripts }

IsPrefix(p, s) == Len(p) <= Len(s) /\ \A i \in 1..Len(p) : p[i] = s[i]

\* line_buffer as a C string of line_len characters
Line(t) == [i \in 1..t.line_len |-> t.line_buffer[i - 1]]

\* printable bytes the client types next: it follows one of its scripts
Typed(t, scripts) ==
    { c \in Alphabet(scripts) : \E s \in scripts : IsPrefix(Append(Line(t), c), s) }

\* carriage return, line feed, backspace, delete, a control byte, a byte
\* above 127
ControlBytes == {CH_CR, CH_LF, CH_BS, CH_DEL, 1, 200}

\* telnet command sequences of the client, after their leading IAC:
\* DO ECHO, DO TTYPE, and the subnegotiation SB TTYPE 0 'A' IAC SE
Negotiations ==
    { << TELNET_DO, TELNET_OPT_ECHO >>, << TELNET_DO, TELNET_OPT_TTYPE >> }
IacSequences ==
    Negotiations \cup { << TELNET_SB, TELNET_OPT_TTYPE, 0, CH_A, TELNET_IAC, TELNET_SE >> }

\* the client of the line editor, and the client of a short session
Client == [lines |-> Scripts, iacs |-> IacSequences]
ShortClient == [lines |-> ShortScripts, iacs |-> Negotiations]

\* the bytes recv may deliver next: the rest of a sequence already begun,
\* else a typed byte or the IAC that begins a sequence.  iac marks the
\* bytes that belong to a telnet command sequence, sb the beginning of a
\* subnegotiation.
Input(pending, t, client) ==
    IF pending # << >>
    THEN { [b |-> Head(pending), iac |-> TRUE, rest |-> Tail(pending), sb |-> 0] }
    ELSE { [b |-> c, iac |-> FALSE, rest |-> << >>, sb |-> 0] :
               c \in Typed(t, client.lines) \cup ControlBytes }
         \cup { [b |-> TELNET_IAC, iac |-> TRUE, rest |-> s,
                 sb |-> IF s[1] = TELNET_SB THEN 1 ELSE 0] :
                 s \in { q \in client.iacs : q[1] = TELNET_SB => t.nsb < MaxSubneg } }

\* which send of a step fails, if any
Sends == {"none", "crlf", "message", "prompt", "echo"}

\* variant: a failed welcome returns without the cleanup
Leave_return_on_welcome_failure(t, reason) ==
    IF reason = "welcome" THEN [t EXCEPT !.pc = "none", !.why = reason]
    ELSE [t EXCEPT !.pc = "cleanup", !.why = reason]

\* break out of the loop, or goto close_socket_cleanup
Leave(t, reason) == [t EXCEPT !.pc = "cleanup", !.why = reason]

\* memset(line_buffer, 0, sizeof(line_buffer))
ZeroBuffer == [i \in 0..(TELNET_RX_BUFFER_SIZE - 1) |-> 0]

\* the branches for backspace / delete, printable bytes and the rest
Edit(buf, used, c) ==
    IF c = CH_BS \/ c = CH_DEL
    THEN IF used > 0
         THEN [buf |-> [buf EXCEPT ![used - 1] = 0], len |-> used - 1, tx |-> "erase"]
         ELSE [buf |-> buf, len |-> used, tx |-> "none"]
    ELSE IF c >= 32 /\ c < 127
    THEN IF used < TELNET_RX_BUFFER_SIZE - 1
         THEN [buf |-> [buf EXCEPT ![used] = c, ![used + 1] = 0], len |-> used + 1,
               tx |-> "echo"]
         ELSE [buf |-> buf, len |-> used, tx |-> "none"]
    ELSE [buf |-> buf, len |-> used, tx |-> "none"]

\* the branch for carriage return: the line is terminated, echoed and
\* handed to the console; mem says whether open_memstream succeeded
Enter(t, mem, fail) ==
    LET z == [t EXCEPT !.line_buffer[t.line_len] = 0, !.tx = "crlf"]
        r == [z EXCEPT !.line_buffer = ZeroBuffer, !.line_len = 0]
    IN
    IF fail = "crlf" THEN Leave(z, "send_error")
    ELSE IF Line(z) = Exit THEN Leave(z, "exit")
    ELSE IF z.line_len > 0 /\ mem THEN [z EXCEPT !.stdout = "memstream", !.pc = "command"]
    ELSE IF z.line_len > 0 /\ fail = "message" THEN Leave(z, "send_error")
    ELSE IF fail = "prompt" THEN Leave(r, "send_error")
    ELSE r

\* accept returns a connection and the handler is entered, up to
\* s_telnet_client_sock = sock
telnet_server_main_task ==
    /\ tn.pc = "none"
    /\ \E fd \in Fds \ tn.open :
        tn' = [tn EXCEPT !.pc = "welcome", !.sock = fd, !.s_telnet_client_sock = fd,
                         !.open = @ \cup {fd}, !.line_len = 0,
                         !.nshutdown = 0, !.nclose = 0, !.why = "none",
                         !.pending = << >>, !.nsb = 0, !.rx = NoRx, !.tx = "none"]
    /\ UNCHANGED << decodeVars, extractVars, totalVars, consoleVars, memo, lg, wf >>

\* the option negotiation and the welcome message
TelnetWelcome ==
    /\ tn.pc = "welcome"
    /\ \E ok \in BOOLEAN :
        tn' = IF ok THEN [tn EXCEPT !.pc = "prompt"] ELSE Leave(tn, "welcome")
    /\ UNCHANGED << decodeVars, extractVars, totalVars, consoleVars, memo, lg, wf >>

\* the initial prompt and the memset before the loop
TelnetPrompt ==
    /\ tn.pc = "prompt"
    /\ \E ok \in BOOLEAN :
        tn' = IF ok
              THEN [tn EXCEPT !.pc = "recv", !.line_buffer = ZeroBuffer, !.line_len = 0]
              ELSE Leave(tn, "prompt")
    /\ UNCHANGED << decodeVars, extractVars, totalVars, consoleVars, memo, lg, wf >>

\* recv of one byte and the branch it takes
Recv(client) ==
    /\ tn.pc = "recv"
    /\ \/ \E reason \in {"recv_error", "client_close"} : tn' = Leave(tn, reason)
       \/ \E in \in Input(tn.pending, tn, client) :
          \E mem \in BOOLEAN : \E fail \in Sends :
            LET t == [tn EXCEPT !.pending = in.rest, !.nsb = @ + in.sb,
                                !.rx = [b |-> in.b, iac |-> in.iac], !.tx = "none"]
                e == Edit(t.line_buffer, t.line_len, in.b)
                w == [t EXCEPT !.line_buffer = e.buf, !.line_len = e.len, !.tx = e.tx]
            IN
            tn' = IF in.b = TELNET_IAC THEN [t EXCEPT !.pc = "iac"]
                  ELSE IF in.b = CH_CR THEN Enter(t, mem, fail)
                  ELSE IF in.b = CH_LF THEN t
                  ELSE IF e.tx # "none" /\ fail = "echo" THEN Leave(w, "send_error")
                  ELSE w

\* recv of the two bytes after an IAC
RecvIac(client) ==
    /\ tn.pc = "iac"
    /\ \/ tn' = Leave(tn, "iac_error")
       \/ \E i1 \in Input(tn.pending, tn, client) :
          \E i2 \in Input(i1.rest, [tn EXCEPT !.nsb = @ + i1.sb], client) :
            tn' = [tn EXCEPT !.pc = "recv", !.pending = i2.rest,
                             !.nsb = @ + i1.sb + i2.sb,
                             !.rx = [b |-> i2.b, iac |-> i2.iac],
                             !.tx = IF i1.b = TELNET_DO /\ i2.b = TELNET_OPT_TTYPE
                                    THEN "wont" ELSE "none"]

telnet_recv ==
    /\ Recv(Client)
    /\ UNCHANGED << decodeVars, extractVars, totalVars, consoleVars, memo, lg, wf >>

telnet_recv_iac ==
    /\ RecvIac(Client)
    /\ UNCHANGED << decodeVars, extractVars, totalVars, consoleVars, memo, lg, wf >>

\* esp_console_run has returned: stdout is put back, the result is sent,
\* the line is cleared and the prompt sent
TelnetCommand ==
    /\ tn.pc = "command"
    /\ \E fail \in {"none", "message", "prompt"} :
        LET z == [tn EXCEPT !.stdout = "original"]
            r == [z EXCEPT !.line_buffer = ZeroBuffer, !.line_len = 0]
        IN
        tn' = IF fail = "message" THEN Leave(z, "send_error")
              ELSE IF fail = "prompt" THEN Leave(r, "send_error")
              ELSE [r EXCEPT !.pc = "recv"]
    /\ UNCHANGED << decodeVars, extractVars, totalVars, consoleVars, memo, lg, wf >>

\* close_socket_cleanup: s_telnet_client_sock = -1 and stdout put back
TelnetCleanup ==
    /\ tn.pc = "cleanup"
    /\ tn' = [tn EXCEPT !.s_telnet_client_sock = -1, !.stdout = "original",
                        !.pc = "shutdown"]
    /\ UNCHANGED << decodeVars, extractVars, totalVars, consoleVars, memo, lg, wf >>

\* shutdown(sock, SHUT_RDWR)
TelnetShutdown ==
    /\ tn.pc = "shutdown"
    /\ tn' = [tn EXCEPT !.nshutdown = @ + 1, !.pc = "close"]
    /\ UNCHANGED << decodeVars, extractVars, totalVars, consoleVars, memo, lg, wf >>

\* close(sock); the handler returns to the accept loop and its locals are
\* gone
TelnetClose ==
    /\ tn.pc = "close"
    /\ tn' = [tn EXCEPT !.open = @ \ {tn.sock}, !.nclose = @ + 1, !.pc = "none",
                        !.line_buffer = ZeroBuffer, !.line_len = 0,
                        !.pending = << >>, !.rx = NoRx, !.tx = "none"]
    /\ UNCHANGED << decodeVars, extractVars, totalVars, consoleVars, memo, lg, wf >>

NextTelnetLine ==
    \/ telnet_server_main_task
    \/ TelnetWelcome
    \/ TelnetPrompt
    \/ telnet_recv
    \/ telnet_recv_iac
    \/ TelnetCommand
    \/ TelnetCleanup
    \/ TelnetShutdown
    \/ TelnetClose

SpecTelnetLine == Init /\ [][NextTelnetLine]_vars

(***************************************************************************)
(* The log redirector, called by a task other than the telnet server task.  *)
(* It reads s_telnet_client_sock for the check and once more for every      *)
(* send; the server task may run between any two of these reads.            *)
(***************************************************************************)
\* telnet_vprintf_redirect up to the loop: the check of s_telnet_client_sock
telnet_vprintf_redirect ==
    /\ lg.pc = "idle"
    /\ lg.lines < MaxLogLines
    /\ lg' = IF tn.s_telnet_client_sock = -1
             THEN [lg EXCEPT !.vprintf = TRUE, !.connected = FALSE, !.sent = 0,
                             !.lines = @ + 1]
             ELSE [lg EXCEPT !.pc = "sending", !.left = LogLen, !.vprintf = FALSE,
                             !.connected = TRUE, !.sent = 0]
    /\ UNCHANGED << decodeVars, extractVars, totalVars, consoleVars, memo, tn, wf >>

\* one round of the loop: send(s_telnet_client_sock, ...) of one character
RedirectSend ==
    /\ lg.pc = "sending"
    /\ \E ok \in BOOLEAN :
        LET fd == tn.s_telnet_client_sock
            dead == fd = -1 \/ fd \notin tn.open
        IN
        lg' = IF dead \/ ~ok
              THEN [lg EXCEPT !.pc = "idle", !.left = 0, !.bad = @ \/ dead,
                              !.lines = @ + 1]
              ELSE IF lg.left = 1
              THEN [lg EXCEPT !.pc = "idle", !.left = 0, !.sent = @ + 1, !.lines = @ + 1]
              ELSE [lg EXCEPT !.left = @ - 1, !.sent = @ + 1]
    /\ UNCHANGED << decodeVars, extractVars, totalVars, consoleVars, memo, tn, wf >>

session_recv ==
    /\ Recv(ShortClient)
    /\ UNCHANGED << decodeVars, extractVars, totalVars, consoleVars, memo, lg, wf >>

session_recv_iac ==
    /\ RecvIac(ShortClient)
    /\ UNCHANGED << decodeVars, extractVars, totalVars, consoleVars, memo, lg, wf >>

NextTelnet ==
    \/ telnet_server_main_task
    \/ TelnetWelcome
    \/ TelnetPrompt
    \/ session_recv
    \/ session_recv_iac
    \/ TelnetCommand
    \/ TelnetCleanup
    \/ TelnetShutdown
    \/ TelnetClose
    \/ telnet_vprintf_redirect
    \/ RedirectSend

SpecTelnet == Init /\ [][NextTelnet]_vars

(***************************************************************************)
(* Wi-Fi station (wifi.c): wifi_start and the two event handlers.  The      *)
(* driver delivers IP_EVENT_STA_GOT_IP or WIFI_EVENT_STA_DISCONNECTED after *)
(* esp_wifi_connect, WIFI_EVENT_STA_DISCONNECTED while connected, and       *)
(* WIFI_EVENT_STA_WPS_ER_SUCCESS while WPS runs.  WPS_ER_FAILED and         *)
(* WPS_ER_TIMEOUT restart WPS and leave the variables as they are.          *)
(***************************************************************************)
MAX_RETRY_ATTEMPTS == 2

\* wifi_start: saved credentials are found and tried, or WPS is started
wifi_start ==
    /\ wf.link = "off"
    /\ \E saved \in BOOLEAN :
        wf' = IF saved
              THEN [wf EXCEPT !.s_tried_nvs_creds = TRUE, !.s_retry_num = 0,
                              !.link = "connecting"]
              ELSE [wf EXCEPT !.s_tried_nvs_creds = FALSE, !.link = "wps"]
    /\ UNCHANGED << decodeVars, extractVars, totalVars, consoleVars, memo, tn, lg >>

\* IP_EVENT_STA_GOT_IP: the credentials are saved, s_tried_nvs_creds = false
got_ip_event_handler ==
    /\ wf.link = "connecting"
    /\ wf.connects < MaxConnects
    /\ wf' = [wf EXCEPT !.s_tried_nvs_creds = FALSE, !.link = "connected",
                        !.connects = @ + 1]
    /\ UNCHANGED << decodeVars, extractVars, totalVars, consoleVars, memo, tn, lg >>

\* case WIFI_EVENT_STA_DISCONNECTED
StaDisconnected(w) ==
    IF w.s_tried_nvs_creds
    THEN [w EXCEPT !.s_tried_nvs_creds = FALSE, !.s_retry_num = 0, !.ap_idx = 1,
                   !.s_ap_creds_num = 0, !.link = "wps", !.reaction = "wps"]
    ELSE IF w.s_retry_num < MAX_RETRY_ATTEMPTS
    THEN [w EXCEPT !.s_retry_num = @ + 1, !.link = "connecting",
                   !.reaction = "connect"]
    ELSE IF w.s_ap_creds_num > 0 /\ w.ap_idx < w.s_ap_creds_num
    THEN [w EXCEPT !.ap_idx = @ + 1, !.s_retry_num = 0, !.link = "connecting",
                   !.reaction = "connect"]
    ELSE [w EXCEPT !.link = "down", !.reaction = "nothing"]

\* WIFI_EVENT_STA_DISCONNECTED arrives: an attempt failed, or the
\* connection was lost
wifi_event_handler ==
    /\ wf.link \in {"connecting", "connected"}
    /\ wf' = StaDisconnected([wf EXCEPT !.was_connected = (wf.link = "connected")])
    /\ UNCHANGED << decodeVars, extractVars, totalVars, consoleVars, memo, tn, lg >>

\* case WIFI_EVENT_STA_WPS_ER_SUCCESS: cnt credentials come with the event,
\* or none (a single credential is set by the WPS module itself)
WpsSuccess ==
    /\ wf.link = "wps"
    /\ \E cnt \in 0..MaxCreds :
        wf' = [wf EXCEPT !.s_ap_creds_num = IF cnt > 0 THEN cnt ELSE @,
                         !.link = "connecting"]
    /\ UNCHANGED << decodeVars, extractVars, totalVars, consoleVars, memo, tn, lg >>

NextWifi ==
    \/ wifi_start
    \/ got_ip_event_handler
    \/ wifi_event_handler
    \/ WpsSuccess

SpecWifi == Init /\ [][NextWifi]_vars



(***************************************************************************)
(* Properties                                                               *)
(***************************************************************************)
Min(a, b) == IF a < b THEN a ELSE b

\* bit k of buffer B, zero beyond its end
RefBit(B, k) == IF (k \div 8) < Len(B) THEN BitOf(B[(k \div 8) + 1], k % 8) ELSE 0

\* sum over i in lo..hi of RefBit(B, p + i) * 2^(i - lo)
RECURSIVE RefSum(_, _, _, _)
RefSum(B, p, lo, hi) ==
    IF hi < lo THEN 0
    ELSE RefSum(B, p, lo, hi - 1) + RefBit(B, p + hi) * Pow2(hi - lo)

\* C1: for every buffer, lsb_index and width in 1..32 the extractor returns
\* the sum over i < width of bit(B, lsb_index + i) * 2^i, bits beyond the
\* buffer counting as 0 (stated per 16-bit limb of the 32-bit result).
C1_ExtractEqualsReference ==
    (xvalue # NoValue /\ xwidth \in 1..32) =>
        /\ xvalue.lo = RefSum(xdata, xlsb, 0, Min(xwidth, 16) - 1)
        /\ xvalue.hi = RefSum(xdata, xlsb, 16, xwidth - 1)

\* a field that straddles the end of the buffer and keeps non-zero low bits
C1_Witness ==
    /\ xvalue # NoValue
    /\ xwidth \in 1..32
    /\ xlsb < 8 * Len(xdata)
    /\ xlsb + xwidth > 8 * Len(xdata)
    /\ xvalue # U32(0, 0)

\* the rendering of a block entry, given the payload bytes
RenderPayload(e, payload) ==
    IF e.type = "BLOCK_BITS"
    THEN bq_print_bits_from_buffer(e, payload, Len(payload)).out
    ELSE [kind |-> "line", name |-> e.name, unit |-> e.unit,
          text |-> IF e.type = "BLOCK_ASCII"
                   THEN [i \in 1..Len(payload) |-> Sanitize(payload[i])]
                   ELSE HexGroups([i \in 1..Len(payload) |-> Sanitize(payload[i])])]

\* C2: a successful block decode issued exactly two transactions, first
\* write [c] / read 1 (the length byte), then write [c] / read 1 + len, and
\* what is rendered is bytes 1..len of the second response, byte 0 dropped.
C2_TwoPhaseBlockRead ==
    /\ (op = "decode_one" /\ pc = "phase2") =>
          /\ Len(bus) = 1
          /\ bus[1].wdata = << entry.reg >>
          /\ bus[1].rlen = 1
          /\ len = bus[1].rdata[1]
    /\ (op = "decode_one" /\ pc = "done" /\ entry.type \in BlockTypes /\ ret = 0) =>
          /\ Len(bus) = 2
          /\ bus[1].wdata = << entry.reg >>
          /\ bus[1].rlen = 1
          /\ Len(bus[1].rdata) = 1
          /\ bus[2].wdata = << entry.reg >>
          /\ bus[2].rlen = 1 + bus[1].rdata[1]
          /\ Len(bus[2].rdata) = bus[2].rlen
          /\ results[1].out =
                RenderPayload(entry, SubSeq(bus[2].rdata, 2, 1 + bus[1].rdata[1]))

\* a two-byte payload whose leading byte differs from the payload bytes
C2_Witness ==
    /\ op = "decode_one"
    /\ pc = "done"
    /\ entry.type = "BLOCK_ASCII"
    /\ ret = 0
    /\ Len(bus) = 2
    /\ bus[2].rdata = << 2, 65, 126 >>
    /\ results[1].out.text = << 65, 126 >>

IsBlockOp ==
    \/ op = "bq_lifetime"
    \/ (op = "decode_one" /\ entry.type \in BlockTypes)

\* C3: in a block read no transaction follows a failed one, and when either
\* phase failed the operation returns the transport's non-zero error and
\* has rendered nothing.
C3_BlockFailureAllOrNothing ==
    IsBlockOp =>
        /\ \A i \in 1..(Len(bus) - 1) : bus[i].err = 0
        /\ (pc = "done" /\ Len(bus) > 0 /\ bus[Len(bus)].err # 0) =>
              /\ ret = bus[Len(bus)].err
              /\ ret # 0
              /\ Len(results) = 1
              /\ results[1].ret = ret
              /\ results[1].out = NoOutput

\* phase 1 succeeded, phase 2 failed
C3_Witness ==
    /\ IsBlockOp
    /\ pc = "done"
    /\ Len(bus) = 2
    /\ bus[1].err = 0
    /\ bus[1].rdata[1] > 0
    /\ bus[2].err # 0
    /\ results[1].out = NoOutput

\* the transactions of the running command that carry command code c
TxnsOf(c) == SelectSeq(bus, LAMBDA t : t.wdata = << c >>)

\* what bq_generic_dump prints for entry e on its own, given its own
\* successful transactions
Standalone(e, txns) ==
    IF e.type \in WordTypes THEN RenderWord(e, txns[1].rdata)
    ELSE RenderBlock(e, txns[2].rdata, txns[1].rdata[1])

RECURSIVE Concat(_)
Concat(ss) == IF ss = << >> THEN << >> ELSE Head(ss) \o Concat(Tail(ss))

\* C4: a finished bq_show pass has decoded every entry exactly once, in
\* table order; an entry is an error exactly when one of its own
\* transactions failed, and every other entry is rendered as it would be on
\* its own, whatever happened to the entries before it.
C4_FaultIsolation ==
    (op = "bq_show" /\ pc = "done") =>
        /\ Len(results) = MaxEntries
        /\ ret = 0
        /\ bus = Concat([j \in 1..MaxEntries |-> TxnsOf(bq_commands[first + j].reg)])
        /\ \A j \in 1..MaxEntries :
            LET e == bq_commands[first + j]
                own == TxnsOf(e.reg)
                failed == \E i \in 1..Len(own) : own[i].err # 0
            IN  /\ results[j].reg = e.reg
                /\ results[j].name = e.name
                /\ Len(own) >= 1
                /\ failed <=> results[j].ret # 0
                /\ failed => (results[j].out = NoOutput /\ results[j].logged)
                /\ ~failed => /\ results[j].ret = 0
                              /\ ~results[j].logged
                              /\ results[j].out = Standalone(e, own)

\* three entries, a failure on the second only, the other two rendered
C4_Witness ==
    /\ op = "bq_show"
    /\ pc = "done"
    /\ Len(results) >= 3
    /\ results[1].ret = 0
    /\ results[1].out # NoOutput
    /\ results[2].ret # 0
    /\ results[2].out = NoOutput
    /\ results[3].ret = 0
    /\ results[3].out # NoOutput

\* C5: bq_print_lifetime_block_decoded(n) with n outside 1..3 returns
\* ESP_ERR_INVALID_ARG without any transaction; with n in 1..3 every
\* transaction carries the command code 0x60 + (n - 1).
C5_LifetimeIndex ==
    (op = "bq_lifetime" /\ pc # "lt_call") =>
        IF n \in 1..3
        THEN /\ Len(bus) >= 1
             /\ \A i \in 1..Len(bus) : bus[i].wdata = << 96 + (n - 1) >>
        ELSE /\ bus = << >>
             /\ pc = "done"
             /\ ret = ESP_ERR_INVALID_ARG

C5_Witness ==
    /\ op = "bq_lifetime"
    /\ pc = "done"
    /\ n = 4
    /\ bus = << >>
    /\ ret = ESP_ERR_INVALID_ARG

\* the payload bytes of a finished block decode, as the transport delivered
\* them: bytes 1..len of the second response
Payload == SubSeq(bus[2].rdata, 2, Len(bus[2].rdata))

BlockDone(kind) ==
    /\ op = "decode_one"
    /\ pc = "done"
    /\ entry.type = kind
    /\ ret = 0

\* printable ASCII is [0x20, 0x7F)
RefAscii(b) == IF b >= 32 /\ b < 127 THEN b ELSE CH_DOT

\* C6: a BlockAscii entry renders every payload byte outside [0x20, 0x7F)
\* as '.' and every other byte as itself.
C6_AsciiSanitization ==
    BlockDone("BLOCK_ASCII") =>
        results[1].out.text = [i \in 1..Len(Payload) |-> RefAscii(Payload[i])]

HEXCHARS == << 48, 49, 50, 51, 52, 53, 54, 55, 56, 57, 65, 66, 67, 68, 69, 70 >>

RefHex2(b) == << HEXCHARS[(b \div 16) + 1], HEXCHARS[(b % 16) + 1] >>

\* C7: a BlockHex entry renders, for every payload byte, the two uppercase
\* hex digits of that byte followed by a space.
C7_HexRendersPayload ==
    BlockDone("BLOCK_HEX") =>
        results[1].out.text =
            Concat([i \in 1..Len(Payload) |-> RefHex2(Payload[i]) \o << CH_SPACE >>])

\* C8: with a length byte of 0 a block entry of any of the three kinds is
\* decoded successfully, the bit-field renderer reports success, and the
\* entry has no fields / no characters.
C8_ZeroLengthNotAnError ==
    (op = "decode_one" /\ pc = "done" /\ entry.type \in BlockTypes
        /\ Len(bus) = 2 /\ bus[1].rdata = << 0 >> /\ bus[2].err = 0) =>
        /\ ret = 0
        /\ IF entry.type = "BLOCK_BITS"
           THEN /\ bq_print_bits_from_buffer(entry, << >>, 0).ret = 0
                /\ results[1].out = [kind |-> "bits", name |-> entry.name, fields |-> << >>]
           ELSE /\ results[1].out.kind = "line"
                /\ results[1].out.text = << >>

\* reading rendered numbers back
HexVal(c) == IF c >= 48 /\ c <= 57 THEN c - 48 ELSE c - 65 + 10

RECURSIVE ParseHex(_)
ParseHex(t) == IF t = << >> THEN 0
               ELSE 16 * ParseHex(SubSeq(t, 1, Len(t) - 1)) + HexVal(t[Len(t)])

RECURSIVE ParseDec(_)
ParseDec(t) == IF t = << >> THEN 0
               ELSE 10 * ParseDec(SubSeq(t, 1, Len(t) - 1)) + (t[Len(t)] - 48)

ParseInt(t) == IF t[1] = CH_MINUS THEN -ParseDec(Tail(t)) ELSE ParseDec(t)

\* "[-]ddd.ddd" in thousandths
ParseFixed3(t) ==
    LET body == IF t[1] = CH_MINUS THEN Tail(t) ELSE t
        L == Len(body)
        mag == 1000 * ParseDec(SubSeq(body, 1, L - 4)) + ParseDec(SubSeq(body, L - 2, L))
    IN  IF t[1] = CH_MINUS THEN -mag ELSE mag

IsFixed3(t) ==
    LET body == IF t[1] = CH_MINUS THEN Tail(t) ELSE t IN
    /\ Len(body) >= 5
    /\ body[Len(body) - 3] = CH_DOT
    /\ \A i \in 1..Len(body) : i # Len(body) - 3 => body[i] \in 48..57

\* the decimal literals of the table, in thousandths
Thousandths(f) ==
    CASE f = f_0_0 -> 0
      [] f = f_1_0 -> 1000
      [] f = f_0_001 -> 1
      [] f = f_0_1 -> 100
      [] f = f_m273_15 -> -273150

\* raw * scaling + offset in exact arithmetic, in thousandths
ExactThousandths(e, raw) == raw * Thousandths(e.scaling) + Thousandths(e.offset)

\* x / d truncated toward zero
TruncZero(x, d) == IF x >= 0 THEN x \div d ELSE -((-x) \div d)

WordDone ==
    /\ op = "decode_one"
    /\ pc = "done"
    /\ entry.type \in WordTypes

\* C9: a word entry of any of the three kinds costs exactly one transaction,
\* write [command_code] / read 2 bytes; the value shown is that of
\* raw = resp[0] + 256 * resp[1], and WordHex shows raw itself, unscaled.
C9_WordRead ==
    WordDone =>
        /\ Len(bus) = 1
        /\ bus[1].addr = BQ30Z555_I2C_ADDR
        /\ bus[1].wdata = << entry.reg >>
        /\ bus[1].rlen = 2
        /\ ret = 0 =>
            LET raw == bus[1].rdata[1] + 256 * bus[1].rdata[2]
                text == results[1].out.text
            IN  /\ Len(bus[1].rdata) = 2
                /\ entry.type = "WORD_HEX" =>
                      /\ Len(text) = 10
                      /\ SubSeq(text, 1, 2) = << CH_0, CH_x >>
                      /\ ParseHex(SubSeq(text, 3, 10)) = raw
                /\ entry.type = "WORD_FLOAT" =>
                      ParseFixed3(text) = ExactThousandths(entry, raw)
                /\ entry.type = "WORD_INTEGER" =>
                      ParseInt(text) = TruncZero(ExactThousandths(entry, raw), 1000)

\* ManufacturerDate answered with bytes 0x2C 0x01 shows 0x0000012C
C9_Witness ==
    /\ WordDone
    /\ ret = 0
    /\ entry.type = "WORD_HEX"
    /\ bus[1].rdata = << 44, 1 >>
    /\ results[1].out.text = << 48, 120, 48, 48, 48, 48, 48, 49, 50, 67 >>

FloatDone ==
    /\ op = "decode_one"
    /\ pc = "done"
    /\ entry.type = "WORD_FLOAT"
    /\ ret = 0

RawWord == bus[1].rdata[1] + 256 * bus[1].rdata[2]

Abs(v) == IF v < 0 THEN -v ELSE v

\* C10: a WordFloat entry shows raw * scaling + offset with three decimals,
\* the same way for every register: raw 300 at 0.001 / 0.0 shows 0.300, raw
\* 2731 at 0.1 / -273.15 shows a value within 0.05 of 0, and scaling 0 with
\* offset 0 shows the constant 0.000.
C10_AffineScaling ==
    FloatDone =>
        LET text == results[1].out.text IN
        /\ IsFixed3(text)
        /\ ParseFixed3(text) = ExactThousandths(entry, RawWord)
        /\ (entry.scaling = f_0_001 /\ entry.offset = f_0_0 /\ RawWord = 300) =>
              text = << 48, 46, 51, 48, 48 >>
        /\ (entry.scaling = f_0_1 /\ entry.offset = f_m273_15 /\ RawWord = 2731) =>
              Abs(ParseFixed3(text)) <= 50
        /\ (entry.scaling = f_0_0 /\ entry.offset = f_0_0) =>
              text = << 48, 46, 48, 48, 48 >>

\* the Kelvin to Celsius case: Temperature answered with raw 2731
C10_Witness ==
    /\ FloatDone
    /\ entry.scaling = f_0_1
    /\ entry.offset = f_m273_15
    /\ RawWord = 2731
    /\ results[1].out.text = << 45, 48, 46, 48, 53, 48 >>

IntDone ==
    /\ op = "decode_one"
    /\ pc = "done"
    /\ entry.type = "WORD_INTEGER"
    /\ ret = 0

\* C11: a WordInteger entry shows raw * scaling + offset truncated toward
\* zero, for positive and negative values alike: 2.95 shows 2, -0.45 shows
\* 0, -2.95 shows -2.
C11_IntegerTruncation ==
    IntDone =>
        LET text == results[1].out.text
            exact == ExactThousandths(entry, RawWord)
        IN  /\ ParseInt(text) = TruncZero(exact, 1000)
            /\ exact = 2950 => text = << 50 >>
            /\ exact = -450 => text = << 48 >>
            /\ exact = -2950 => text = << 45, 50 >>

\* a negative value with a fraction: raw 2702 at 0.1 / -273.15 is -2.95
C11_Witness ==
    /\ IntDone
    /\ ExactThousandths(entry, RawWord) = -2950
    /\ results[1].out.text = << 45, 50 >>

\* C12: a BlockBits entry with k bit-field descriptors and a non-empty
\* payload renders exactly k fields, the i-th field being the i-th
\* descriptor in definition order applied to the payload (length byte
\* excluded): a flag mark for width 1, the plain unsigned value otherwise,
\* with the entry's scaling and offset left unused.
C12_BitsInDefinitionOrder ==
    (BlockDone("BLOCK_BITS") /\ bus[1].rdata[1] > 0) =>
        LET out == results[1].out
            k == Len(entry.bits)
        IN  /\ out.kind = "bits"
            /\ DOMAIN out.fields = 1..k
            /\ \A i \in 1..k :
                  LET d == entry.bits[i]
                      v == RefSum(Payload, d.bit, 0, d.width - 1)
                      t == out.fields[i].text
                  IN  /\ out.fields[i].desc = d.desc
                      /\ IF d.width = 1
                         THEN t = (IF v = 1 THEN << CH_X >> ELSE << CH_SPACE >>)
                         ELSE /\ ParseDec(t) = v
                              /\ Len(t) = (IF v < 10 THEN 1 ELSE 2)

\* fields defined at bits 8, 0, 4: the first listed field is the two-bit
\* field at bit 8 with value 3, the second the set flag at bit 0, the
\* third the four-bit field at bit 4 with value 1
C12_Witness ==
    /\ BlockDone("BLOCK_BITS")
    /\ entry = OrderEntry
    /\ Payload = << 31, 255 >>
    /\ results[1].out.fields[1] = [desc |-> "HI", text |-> << 51 >>]
    /\ results[1].out.fields[2] = [desc |-> "LO", text |-> << CH_X >>]
    /\ results[1].out.fields[3] = [desc |-> "MID", text |-> << 49 >>]

\* the command code of the entry being decoded
CurrentCmd == IF op = "bq_lifetime" THEN 96 + (n - 1) ELSE entry.reg

\* C13: every step that puts a transaction on the bus issues exactly one
\* write-then-read to device address 0x0B whose written data is the single
\* command byte of the entry being decoded and whose read length is at
\* least 1 (and at most 256); no step issues a write-only or read-only
\* transaction.
C13_TransportUsage ==
    [][ bus' # bus =>
          \/ bus' = << >>
          \/ /\ Len(bus') = Len(bus) + 1
             /\ SubSeq(bus', 1, Len(bus)) = bus
             /\ LET t == bus'[Len(bus')] IN
                  /\ t.addr = 11
                  /\ Len(t.wdata) = 1
                  /\ t.wdata[1] = CurrentCmd
                  /\ t.rlen >= 1
                  /\ t.rlen <= 256 ]_vars

\* a table pass that has read a block entry in two transactions and then a
\* word entry with a different command code
C13_Witness ==
    /\ op = "bq_show"
    /\ pc = "call"
    /\ Len(bus) = 3
    /\ bus[1].rlen = 1
    /\ bus[2].rlen > 1
    /\ bus[2].wdata = bus[1].wdata
    /\ bus[3].rlen = 2
    /\ bus[3].wdata # bus[2].wdata
    /\ bus[3].wdata = << results[2].reg >>

\* the most transactions one decode of entry e may issue
MaxTxns(e) ==
    IF e.type \in WordTypes THEN 1
    ELSE IF e.type \in BlockTypes THEN 2
    ELSE 0

\* a failed transaction is the last one of its sequence
FailureIsLast(txns) == \A i \in 1..(Len(txns) - 1) : txns[i].err = 0

RECURSIVE SumTxns(_, _)
SumTxns(lo, hi) ==
    IF hi < lo THEN 0 ELSE SumTxns(lo, hi - 1) + MaxTxns(bq_commands[hi])

\* C14: within the decode of one entry no transaction follows a failed
\* one; a word entry issues at most 1 and a block entry at most 2
\* transactions, and a bq_show pass issues at most W + 2 * B transactions
\* for the W word and B block entries it has started on, every one of
\* them belonging to one of those entries.
C14_NoInternalRetry ==
    /\ op = "decode_one" =>
          /\ Len(bus) <= MaxTxns(entry)
          /\ FailureIsLast(bus)
    /\ op = "bq_lifetime" =>
          /\ Len(bus) <= 2
          /\ FailureIsLast(bus)
    /\ op = "bq_show" =>
          LET started == Min(pos + 1, first + MaxEntries) IN
          /\ \A j \in (first + 1)..started :
                LET own == TxnsOf(bq_commands[j].reg) IN
                /\ Len(own) <= MaxTxns(bq_commands[j])
                /\ FailureIsLast(own)
          /\ \A i \in 1..Len(bus) :
                \E j \in (first + 1)..started : bus[i].wdata = << bq_commands[j].reg >>
          /\ Len(bus) <= SumTxns(first + 1, started)

\* a finished pass over a word entry and two block entries: the word read
\* failed, the first block failed in its length transaction, the second
\* block was read in full; 4 transactions where 5 are allowed
C14_Witness ==
    /\ op = "bq_show"
    /\ pc = "done"
    /\ SumTxns(first + 1, first + MaxEntries) = 5
    /\ Len(bus) = 4
    /\ bus[1].err # 0
    /\ bus[2].err # 0
    /\ bus[3].err = 0
    /\ bus[4].err = 0
    /\ results[1].ret # 0
    /\ results[2].ret # 0
    /\ results[3].ret = 0

\* C16: a descriptor/kind mismatch is refused with ESP_ERR_INVALID_ARG
\* before any I/O: the bit-field renderer given a descriptor that is not
\* BLOCK_BITS, and bq_generic_dump given a null descriptor or a
\* descriptor of a kind outside the six handled ones, return
\* ESP_ERR_INVALID_ARG, issue no transaction and render nothing.
C16_KindMismatchInvalidArgument ==
    /\ \A e \in DirectEntries :
          e.type # "BLOCK_BITS" =>
              bq_print_bits_from_buffer(e, << 255 >>, 1) =
                  [ret |-> ESP_ERR_INVALID_ARG, out |-> NoOutput]
    /\ (op = "decode_one" /\ pc = "done"
            /\ entry.type \notin (BlockTypes \cup WordTypes)) =>
          /\ ret = ESP_ERR_INVALID_ARG
          /\ bus = << >>
          /\ results[1].out = NoOutput

\* a block decode that got both answers
BlockRead ==
    /\ op = "decode_one"
    /\ pc = "done"
    /\ entry.type \in BlockTypes
    /\ Len(bus) = 2
    /\ bus[2].err = 0

\* the number of payload bytes an output shows; a bit-field listing shows
\* the whole payload or nothing
ShownBytes(e, out, payload) ==
    IF e.type = "BLOCK_ASCII" THEN Len(out.text)
    ELSE IF e.type = "BLOCK_HEX" THEN Len(out.text) \div 3
    ELSE IF out = NoOutput THEN 0
    ELSE Len(payload)

\* C19: the payload length of a block entry is the length byte of the
\* first transaction.  The first byte of the second response is not
\* compared with it and has no influence: when the two differ the decode
\* still returns 0, has asked for 1 + len bytes, and shows exactly len
\* payload bytes, the same output as if the two had agreed.
C19_Phase1LengthTrusted ==
    BlockRead =>
        LET len1 == bus[1].rdata[1]
            resp == bus[2].rdata
            agreed == [resp EXCEPT ![1] = len1]
            out == results[1].out
        IN  /\ ret = 0
            /\ bus[2].rlen = 1 + len1
            /\ ShownBytes(entry, out, SubSeq(resp, 2, 1 + len1)) = len1
            /\ out = RenderPayload(entry, SubSeq(resp, 2, 1 + len1))
            /\ out = Standalone(entry, << bus[1], [bus[2] EXCEPT !.rdata = agreed] >>)

\* the device said 2 bytes, then 1: both payload bytes are shown
C19_Witness ==
    /\ BlockRead
    /\ entry.type = "BLOCK_ASCII"
    /\ bus[1].rdata = << 2 >>
    /\ bus[2].rdata = << 1, 65, 126 >>
    /\ ret = 0
    /\ results[1].out.text = << 65, 126 >>

\* v < 2^w for a 32-bit value held in two 16-bit limbs
Below2(v, w) ==
    /\ v.lo \in 0..65535
    /\ v.hi \in 0..65535
    /\ w <= 16 => (v.hi = 0 /\ v.lo < Pow2(w))
    /\ (w > 16 /\ w < 32) => v.hi < Pow2(w - 16)

TwoPhaseDone ==
    /\ pc = "done"
    /\ \/ op = "decode_one" /\ entry.type \in BlockTypes
       \/ op = "bq_lifetime"
    /\ Len(bus) = 2
    /\ bus[2].err = 0

\* C20: for every length byte 0..255 the second read asks for 1 + len
\* bytes, computed without 8-bit wrap-around, between 1 and 256 and within
\* the 256-byte buffer; the renderers of the three block kinds and the raw
\* lifetime dump read the buffer only at indices 1..len.
C20_BoundedBlockBuffer ==
    /\ (pc \in {"phase2", "lt_phase2"}) => len \in 0..255
    /\ (Len(bus) = 2 /\ (op \in {"decode_one", "bq_lifetime"})) =>
          LET len1 == bus[1].rdata[1] IN
          /\ bus[2].rlen = 1 + len1
          /\ bus[2].rlen >= 1
          /\ bus[2].rlen <= 256
          /\ bus[2].rlen <= RESP_SIZE
    /\ TwoPhaseDone =>
          LET len1 == bus[1].rdata[1]
              reads == IF op = "bq_lifetime"
                       THEN (IF n = 1 THEN {} ELSE LifetimeRawReads(len1))
                       ELSE RenderReads(entry, bus[2].rdata, len1)
          IN  /\ reads \subseteq 1..len1
              /\ reads \subseteq 0..(RESP_SIZE - 1)
              /\ \A i \in reads : i + 1 <= Len(bus[2].rdata)
              /\ (op = "bq_lifetime" /\ n # 1) =>
                    Len(results[1].out.bytes) = Cardinality(reads)
              /\ (op = "decode_one" /\ entry.type = "BLOCK_ASCII") =>
                    Len(results[1].out.text) = Cardinality(reads)
              /\ (op = "decode_one" /\ entry.type = "BLOCK_HEX") =>
                    Len(results[1].out.text) = 3 * Cardinality(reads)

\* length byte 255: the second read asks for 256 bytes and the last
\* payload byte shown is resp_data[255]
C20_Witness ==
    /\ TwoPhaseDone
    /\ op = "decode_one"
    /\ entry.type = "BLOCK_ASCII"
    /\ bus[1].rdata = << 255 >>
    /\ bus[2].rlen = 256
    /\ Len(bus[2].rdata) = 256
    /\ 255 \in RenderReads(entry, bus[2].rdata, 255)
    /\ Len(results[1].out.text) = 255

\* C15: the transactions of two decode operations never interleave on
\* the bus, and between the length transaction and the payload
\* transaction of a block read there is no other transaction.
C15_OneDecodeInFlight ==
    /\ \A i \in 1..Len(wire) : \A k \in i..Len(wire) :
          wire[i].decode = wire[k].decode =>
              \A j \in i..k : wire[j].decode = wire[i].decode
    /\ \A i \in 1..(Len(wire) - 1) :
          (wire[i].phase = "length" /\ wire[i].txn.err = 0) =>
              /\ wire[i + 1].task = wire[i].task
              /\ wire[i + 1].decode = wire[i].decode
              /\ wire[i + 1].phase = "payload"

\* the arguments other than --cyclic are acceptable
RwPlain(a) ==
    /\ Len(a.wdata) > 0
    /\ \A i \in 1..Len(a.wdata) : a.wdata[i].v \in 0..255 /\ ~a.wdata[i].rest
    /\ a.rbytes \in 1..256

RwTxns == SelectSeq(rwlog, LAMBDA ev : ev.kind = "txn")

\* every transaction of the log is the one the arguments ask for
RwSameTxn(a) ==
    \A i \in 1..Len(RwTxns) :
        /\ RwTxns[i].addr = a.address % 256
        /\ RwTxns[i].wdata = [k \in 1..Len(a.wdata) |-> a.wdata[k].v]
        /\ RwTxns[i].rlen = a.rbytes

SameDecode(j) ==
    /\ results[j].reg = memo.reg
    /\ results[j].name = memo.name
    /\ Responses(results[j].reg) = memo.txns

C21_DecodeStateless ==
    \A j \in 1..Len(results) :
        SameDecode(j) =>
            /\ results[j].ret = memo.ret
            /\ results[j].out = memo.out
            /\ results[j].logged = memo.logged

\* the second entry of an earlier pass, decoded again as the first entry of
\* a pass, with the same responses and a printed text
C21_Witness ==
    /\ op = "bq_show"
    /\ memo.before = 1
    /\ memo.ret = 0
    /\ memo.out # NoOutput
    /\ Len(results) >= 1
    /\ SameDecode(1)
    /\ results[1].out = memo.out

(***************************************************************************)
(* C22: the schema is well formed.  No two entries of bq_commands have the *)
(* same command code; every BLOCK_BITS entry has a non-empty bit-field     *)
(* list whose recorded count is the length of the list; every bit-field    *)
(* width is between 1 and 32.  The table a bq_show pass walks is this one. *)
(***************************************************************************)
C22_SchemaWellFormed ==
    /\ (op = "bq_show" /\ pc = "call") => entry = bq_commands[pos + 1]
    /\ \A i, j \in 1..COUNT :
           bq_commands[i].reg = bq_commands[j].reg => i = j
    /\ \A i \in 1..COUNT :
           bq_commands[i].type = "BLOCK_BITS" =>
               /\ bq_commands[i].bits # << >>
               /\ bq_commands[i].bits_count = Len(bq_commands[i].bits)
               /\ \A k \in 1..Len(bq_commands[i].bits) :
                      bq_commands[i].bits[k].width \in 1..32

\* a bq_show pass has printed one line per recorded field of BatteryStatus,
\* whose first field is four bits wide
C22_Witness ==
    /\ op = "bq_show"
    /\ \E j \in 1..Len(results) :
           /\ results[j].reg = BQ30Z555_CMD_BATTERY_STATUS
           /\ results[j].ret = 0
           /\ results[j].out.kind = "bits"
           /\ Len(results[j].out.fields) = Len(BITS_BATTERY_STATUS)
           /\ BITS_BATTERY_STATUS[1].width = 4

(***************************************************************************)
(* C29: raw words are unsigned, 0..65535, bit 15 being part of the         *)
(* magnitude.  A word entry whose offset and scaling are not negative      *)
(* never shows a negative value; Current and AverageCurrent (scaling       *)
(* 0.001) show 65.535 for the response FF FF, not -0.001.                  *)
(***************************************************************************)
NonNegative(f) == f.s = 0

\* "65.535"
Text_65_535 == << 54, 53, CH_DOT, 53, 51, 53 >>

C29_UnsignedWords ==
    (WordDone /\ ret = 0) =>
        /\ RawWord \in 0..65535
        /\ (NonNegative(entry.offset) /\ NonNegative(entry.scaling)) =>
               /\ results[1].out.text # << >>
               /\ results[1].out.text[1] # CH_MINUS
        /\ (entry.reg \in {BQ30Z555_CMD_CURRENT, BQ30Z555_CMD_AVERAGE_CURRENT}
                /\ bus[1].rdata = << 255, 255 >>) =>
               results[1].out.text = Text_65_535

\* Current has answered FF FF and 65.535 has been printed
C29_Witness ==
    /\ WordDone
    /\ ret = 0
    /\ entry.reg = BQ30Z555_CMD_CURRENT
    /\ entry.scaling = f_0_001
    /\ bus[1].rdata = << 255, 255 >>
    /\ results[1].out.text = Text_65_535

(***************************************************************************)
(* C30: for block 1 and every declared length, the lifetime decoder reads  *)
(* the twelve little-endian words at offsets 1..24 and the byte at offset  *)
(* 25 whatever the length is; every access is inside the 256-byte buffer,  *)
(* which starts zeroed, so a field past the declared payload shows 0 and   *)
(* the call succeeds.  For blocks 2 and 3 exactly len raw bytes, those at  *)
(* offsets 1..len, are printed.                                            *)
(***************************************************************************)
LifetimeDone ==
    /\ op = "bq_lifetime"
    /\ pc = "done"
    /\ Len(bus) = 2
    /\ ~Failed(bus[2].err)

\* the byte of the buffer at an offset: transferred, or still zero
BufferAt(k) == IF k <= bus[1].rdata[1] THEN bus[2].rdata[k + 1] ELSE 0

C30_LifetimeFixedOffsets ==
    LifetimeDone =>
        /\ ret = 0
        /\ results[1].ret = 0
        /\ n = 1 =>
              /\ LifetimeFixedReads = 1..25
              /\ LifetimeFixedReads \subseteq 0..(RESP_SIZE - 1)
              /\ results[1].out.kind = "lifetime1"
              /\ \A w \in 1..12 :
                     ParseFixed3(results[1].out.words[w])
                         = BufferAt(2 * w - 1) + 256 * BufferAt(2 * w)
              /\ ParseDec(results[1].out.power) = BufferAt(25)
              /\ \A w \in 1..12 :
                     2 * w - 1 > bus[1].rdata[1] =>
                         results[1].out.words[w] = << CH_0, CH_DOT, CH_0, CH_0, CH_0 >>
              /\ 25 > bus[1].rdata[1] => results[1].out.power = << CH_0 >>
        /\ n \in {2, 3} =>
              /\ results[1].out.kind = "lifetimeraw"
              /\ Len(results[1].out.bytes) = bus[1].rdata[1]
              /\ LifetimeRawReads(bus[1].rdata[1]) \subseteq 0..(RESP_SIZE - 1)
              /\ \A i \in 1..bus[1].rdata[1] :
                     results[1].out.bytes[i] = FmtHex2(bus[2].rdata[1 + i])

\* block 1 with a declared length of 2: the first word is the payload's,
\* every later field shows 0
C30_Witness ==
    /\ LifetimeDone
    /\ n = 1
    /\ bus[1].rdata = << 2 >>
    /\ bus[2].rdata = << 2, 255, 255 >>
    /\ results[1].out.words[1] = << 54, 53, CH_DOT, 53, 51, 53 >>
    /\ results[1].out.words[2] = << CH_0, CH_DOT, CH_0, CH_0, CH_0 >>
    /\ results[1].out.power = << CH_0 >>
    /\ ret = 0

(***************************************************************************)
(* C28: on every return path of do_i2c_rw_cmd (success, bad write byte,    *)
(* invalid or incomplete --cyclic arguments, read count outside 1..256,    *)
(* allocation failure, failed cycles) every buffer the invocation has      *)
(* allocated has been freed exactly once, and no transaction is issued on  *)
(* a path that returns because of an argument error.                       *)
(***************************************************************************)
C28_BuffersFreedOnce ==
    rw.pc = "done" =>
        /\ \A b \in RwBuffers : rw.frees[b] = rw.mallocs[b]
        /\ RwRejected(rw.args) => rwlog = << >>

\* the part that holds: nothing is freed that was not allocated or that
\* was freed before, an argument error issues no transaction, and every
\* path that reaches the loop, and the allocation failure, release all
C28_FreedAtMostOnce ==
    /\ \A b \in RwBuffers : rw.frees[b] <= rw.mallocs[b]
    /\ (rw.pc = "done" /\ RwRejected(rw.args)) => rwlog = << >>
    /\ (rw.pc = "done" /\ ~RwRejected(rw.args)) =>
           \A b \in RwBuffers : rw.frees[b] = rw.mallocs[b]

\* a bad -w byte: the command has returned 1 and w_data_buf is still
\* allocated
C28_Leak ==
    /\ rw.pc = "done"
    /\ rw.ret = 1
    /\ \E i \in 1..Len(rw.args.wdata) : BadByte(rw.args.wdata[i])
    /\ rw.mallocs["w_data_buf"] = 1
    /\ rw.frees["w_data_buf"] = 0
    /\ rwlog = << >>

(***************************************************************************)
(* C26: after any sequence of bytes received from the client,              *)
(* 0 <= line_len <= TELNET_RX_BUFFER_SIZE - 1 and line_buffer[line_len] is *)
(* the terminating zero; a printable byte received while the buffer is     *)
(* full is dropped without an echo; backspace / delete on an empty line    *)
(* changes nothing; the bytes of a telnet command sequence never change    *)
(* the line buffer; line_len is 0 again after every carriage return.       *)
(***************************************************************************)
InLoop(t) == t.pc \in {"recv", "iac", "command"}

\* the step has received the byte tn'.rx in the main branch of the loop
Got ==
    /\ tn.pc = "recv"
    /\ tn' # tn
    /\ tn'.why \notin {"recv_error", "client_close"}

SameLine ==
    /\ tn'.line_buffer = tn.line_buffer
    /\ tn'.line_len = tn.line_len

LineBounded ==
    InLoop(tn') =>
        /\ tn'.line_len \in 0..(TELNET_RX_BUFFER_SIZE - 1)
        /\ tn'.line_buffer[tn'.line_len] = 0

FullDrops ==
    (Got /\ tn'.rx.b \in 32..126 /\ tn.line_len = TELNET_RX_BUFFER_SIZE - 1) =>
        SameLine /\ tn'.tx = "none"

EmptyBackspace ==
    (Got /\ tn'.rx.b \in {CH_BS, CH_DEL} /\ tn.line_len = 0) =>
        SameLine /\ tn'.tx = "none"

ReturnResets ==
    /\ (Got /\ tn'.rx.b = CH_CR /\ tn'.pc = "recv") => tn'.line_len = 0
    /\ (tn.pc = "command" /\ tn'.pc = "recv") => tn'.line_len = 0

C26_LineBufferBound ==
    [][ /\ LineBounded
        /\ FullDrops
        /\ EmptyBackspace
        /\ ((Got /\ tn'.rx.iac) \/ tn.pc = "iac") => SameLine
        /\ ReturnResets ]_vars

\* the part that holds: the bound, the terminator, the drop, the empty
\* backspace, the reset, and the branch for IAC, which consumes two more
\* bytes whatever they are and leaves the line alone
C26_LineBufferBoundThreeBytes ==
    [][ /\ LineBounded
        /\ FullDrops
        /\ EmptyBackspace
        /\ (tn.pc = "iac" \/ (Got /\ tn'.rx.b = TELNET_IAC)) => SameLine
        /\ ReturnResets ]_vars

\* the payload byte of a subnegotiation has been appended to the line and
\* echoed
C26_SubnegotiationTyped ==
    /\ tn.pc = "recv"
    /\ tn.rx = [b |-> CH_A, iac |-> TRUE]
    /\ tn.tx = "echo"
    /\ tn.line_len = 1
    /\ tn.line_buffer[0] = CH_A
    /\ tn.pending = << TELNET_IAC, TELNET_SE >>

\* the buffer is full and a further printable byte has been dropped
C26_FullBuffer ==
    /\ tn.pc = "recv"
    /\ tn.line_len = TELNET_RX_BUFFER_SIZE - 1
    /\ tn.rx = [b |-> CH_A, iac |-> FALSE]
    /\ tn.tx = "none"

(***************************************************************************)
(* C24: the telnet server serves one client at a time: a connection is     *)
(* accepted only after the handler of the previous one has returned.  On   *)
(* every way out of the handler (client close, receive error, send error,  *)
(* exit, failure to send the welcome or the prompt) the client socket has  *)
(* been shut down and closed exactly once, s_telnet_client_sock is -1 and  *)
(* stdout is the original stream.  s_telnet_client_sock differs from -1    *)
(* only while a handler runs, and is then the handler's socket.            *)
(***************************************************************************)
ExitReasons ==
    {"client_close", "recv_error", "send_error", "exit", "welcome", "prompt",
     "iac_error"}

C24_OneClientAtATime ==
    /\ Cardinality(tn.open) <= 1
    /\ tn.nshutdown <= 1
    /\ tn.nclose <= 1
    /\ tn.pc = "none" =>
           /\ tn.open = {}
           /\ tn.s_telnet_client_sock = -1
           /\ tn.stdout = "original"
           /\ tn.why = "none" \/
                  (tn.why \in ExitReasons /\ tn.nshutdown = 1 /\ tn.nclose = 1)
    /\ tn.pc # "none" => tn.open = {tn.sock} /\ tn.nclose = 0
    /\ tn.s_telnet_client_sock # -1 =>
           /\ tn.pc \notin {"none", "shutdown", "close"}
           /\ tn.s_telnet_client_sock = tn.sock
    /\ tn.stdout # "original" => tn.pc = "command"

\* the welcome message could not be sent; the handler has returned
C24_Witness ==
    /\ tn.pc = "none"
    /\ tn.why = "welcome"
    /\ tn.nshutdown = 1
    /\ tn.nclose = 1
    /\ tn.open = {}
    /\ tn.s_telnet_client_sock = -1
    /\ tn.stdout = "original"

(***************************************************************************)
(* C23: every log line passed to the installed redirector is handed to the *)
(* original log handler, and is also sent to the telnet client when one is *)
(* connected: with a client connected, log output still reaches the        *)
(* original handler.                                                       *)
(***************************************************************************)
LineLogged == lg.pc = "idle" /\ lg.lines > 0

C23_LogReachesOriginal ==
    LineLogged =>
        /\ lg.vprintf
        /\ lg.sent > 0 => lg.connected

\* what the redirector does: the original handler is called exactly for
\* the lines that find no client connected
C23_OriginalOnlyWithoutClient ==
    LineLogged =>
        /\ lg.vprintf <=> ~lg.connected
        /\ lg.sent > 0 => lg.connected

\* a line emitted during a session has gone to the client in full and
\* not to the original handler
C23_OnlyToClient ==
    /\ LineLogged
    /\ lg.connected
    /\ lg.sent = LogLen
    /\ ~lg.vprintf

(***************************************************************************)
(* C25: when another task emits a log line while the telnet handler closes *)
(* its connection, the redirector never calls send on a descriptor that is *)
(* -1 or that has been closed.                                             *)
(***************************************************************************)
C25_NoSendOnDeadDescriptor == ~lg.bad

\* the redirector passed its check during the session and called send
\* after the handler had reset s_telnet_client_sock
C25_SendAfterReset ==
    /\ lg.bad
    /\ lg.connected
    /\ tn.s_telnet_client_sock = -1
    /\ tn.pc \in {"shutdown", "close", "none"}

(***************************************************************************)
(* C27: whenever WIFI_EVENT_STA_DISCONNECTED arrives after a successful    *)
(* connection, the handler reacts with esp_wifi_connect or a WPS restart.  *)
(* s_retry_num counts the consecutive failed attempts since the last       *)
(* successful connection, so it is 0 while connected, and it never exceeds *)
(* MAX_RETRY_ATTEMPTS; no run of connect / disconnect cycles leads to a    *)
(* disconnect without a reaction although the credentials have just        *)
(* worked.                                                                 *)
(***************************************************************************)
C27_ReconnectAfterConnection ==
    /\ wf.s_retry_num \in 0..MAX_RETRY_ATTEMPTS
    /\ wf.link = "connected" => wf.s_retry_num = 0
    /\ (wf.was_connected /\ wf.reaction # "none") => wf.reaction \in {"connect", "wps"}

\* what holds: the bound of s_retry_num, and a reaction to every lost
\* connection that was reached with fewer than MAX_RETRY_ATTEMPTS retries
\* counted
C27_RetryBounded ==
    /\ wf.s_retry_num \in 0..MAX_RETRY_ATTEMPTS
    /\ (wf.reaction = "nothing") => wf.s_retry_num = MAX_RETRY_ATTEMPTS
    /\ wf.link = "down" <=> wf.reaction = "nothing"

\* the third loss of a connection that had been established each time:
\* the handler has done nothing and the station stays down
C27_NoReaction ==
    /\ wf.connects = 3
    /\ wf.was_connected
    /\ wf.reaction = "nothing"
    /\ wf.link = "down"
    /\ wf.s_retry_num = MAX_RETRY_ATTEMPTS

====
